---- MODULE Spec2Model ----
(***************************************************************************)
(* Multi-source genre classification engine (phase3) and the two-stage     *)
(* subgenre classifier.                                                     *)
(*                                                                          *)
(* Strings are sequences of one-character strings so that lower(), strip(), *)
(* substring containment and ilike are computed, not assumed.  Weights are  *)
(* integers: source reliabilities in hundredths, tag confidences in tenths, *)
(* so a vote is counted in thousandths; a confidence score is an exact      *)
(* fraction [n, d] in lowest terms.                                         *)
(***************************************************************************)
EXTENDS Integers, Sequences, FiniteSets, TLC

\* ------------------------------------------------------------------ bounds
MaxRuns == 2      \* processes started (each starts with an empty in-memory cache)
MaxCalls == 2     \* classify_artist calls over all processes
DeepCalls == 3    \* the same, for the specification that follows longer histories
MaxVotes == 3     \* classifications in a list handed to the reasoning engine

\* ----------------------------------------------------------------- strings
\* Python's None, one per type
None == "None"
NoYear == 0
NoName == <<>>
NoProfile == [none |-> TRUE]

Upper26 == <<"A", "B", "C", "D", "E", "F", "G", "H", "I", "J", "K", "L", "M",
             "N", "O", "P", "Q", "R", "S", "T", "U", "V", "W", "X", "Y", "Z">>
Lower26 == <<"a", "b", "c", "d", "e", "f", "g", "h", "i", "j", "k", "l", "m",
             "n", "o", "p", "q", "r", "s", "t", "u", "v", "w", "x", "y", "z">>

LowerChar(c) ==
    IF \E i \in DOMAIN Upper26 : Upper26[i] = c
    THEN Lower26[CHOOSE i \in DOMAIN Upper26 : Upper26[i] = c] ELSE c

Lower(s) == [i \in 1..Len(s) |-> LowerChar(s[i])]

RECURSIVE LStrip(_)
LStrip(s) == IF s # <<>> /\ Head(s) = " " THEN LStrip(Tail(s)) ELSE s

RECURSIVE RStrip(_)
RStrip(s) == IF s # <<>> /\ s[Len(s)] = " " THEN RStrip(SubSeq(s, 1, Len(s) - 1)) ELSE s

Strip(s) == RStrip(LStrip(s))

\* Python's `sub in s`
Contains(sub, s) ==
    \E i \in 0..(Len(s) - Len(sub)) : SubSeq(s, i + 1, i + Len(sub)) = sub

\* SQL ilike '%pat%'
ILikeContains(pat, s) == Contains(Lower(pat), Lower(s))

\* --------------------------------------------------------------- fractions
RECURSIVE GCD(_, _)
GCD(a, b) == IF b = 0 THEN a ELSE GCD(b, a % b)

Frac(n, d) == IF n = 0 THEN [n |-> 0, d |-> 1]
              ELSE [n |-> n \div GCD(n, d), d |-> d \div GCD(n, d)]

Zero == Frac(0, 1)

\* f > a/b and f >= a/b
FracGT(f, a, b) == f.n * b > a * f.d
FracGE(f, a, b) == f.n * b >= a * f.d

\* -------------------------------------------------------------- genre names
G_pop == <<"p", "o", "p">>
G_hiphop == <<"h", "i", "p", "-", "h", "o", "p">>
G_rock == <<"r", "o", "c", "k">>
G_alternative == <<"a", "l", "t", "e", "r", "n", "a", "t", "i", "v", "e">>
G_country == <<"c", "o", "u", "n", "t", "r", "y">>
G_electronic == <<"e", "l", "e", "c", "t", "r", "o", "n", "i", "c">>
G_rnb == <<"r", "&", "b">>
G_latin == <<"l", "a", "t", "i", "n">>
G_folk == <<"f", "o", "l", "k">>
G_jazz == <<"j", "a", "z", "z">>
G_other == <<"o", "t", "h", "e", "r">>
\* a primary_genre argument that is no genre of the system
G_unknown == <<"u", "n", "k", "n", "o", "w", "n", "_", "g", "e", "n", "r", "e">>

primary_genres == {G_pop, G_hiphop, G_rock, G_alternative, G_country,
                   G_electronic, G_rnb, G_latin, G_folk, G_jazz, G_other}

\* raw tags the sources may return
T_dance_pop == <<"d", "a", "n", "c", "e", " ", "p", "o", "p">>
T_Pop == <<"P", "o", "p">>
T_rap == <<"r", "a", "p">>
T_rap_rock == <<"r", "a", "p", " ", "r", "o", "c", "k">>
T_soul == <<"s", "o", "u", "l">>
T_xq == <<"x", "q">>

\* The rows of primary_genre_mapping that the tags above can hit, in the
\* order of the table (the fuzzy pass returns the first key that matches).
primary_genre_mapping ==
    << [key |-> G_pop, primary |-> G_pop],
       [key |-> T_dance_pop, primary |-> G_pop],
       [key |-> T_rap, primary |-> G_hiphop],
       [key |-> G_hiphop, primary |-> G_hiphop],
       [key |-> G_rock, primary |-> G_rock],
       [key |-> G_rnb, primary |-> G_rnb],
       [key |-> T_soul, primary |-> G_rnb] >>

FuzzyHit(g, k) == Contains(g, primary_genre_mapping[k].key)
                  \/ Contains(primary_genre_mapping[k].key, g)

\* variant: a tag no key matches is kept as it is
MapFuzzyKeepsTag(g, hits) ==
    IF hits = {} THEN g
    ELSE primary_genre_mapping[CHOOSE k \in hits : \A j \in hits : k <= j].primary

MapFuzzy(g, hits) ==
    IF hits = {} THEN G_other
    ELSE primary_genre_mapping[CHOOSE k \in hits : \A j \in hits : k <= j].primary

_map_to_primary_genre(genre) ==
    LET g == Strip(Lower(genre))
        direct == {k \in DOMAIN primary_genre_mapping : primary_genre_mapping[k].key = g}
        fuzzy == {k \in DOMAIN primary_genre_mapping : FuzzyHit(g, k)}
    IN IF direct # {}
       THEN primary_genre_mapping[CHOOSE k \in direct : TRUE].primary
       ELSE MapFuzzy(g, fuzzy)

\* the strings the sources and the database hand to the reasoning engine, and
\* some more: mapped, unmapped, mixed case, blank
MapInputs == primary_genres \cup {T_dance_pop, T_Pop, T_rap, T_rap_rock, T_soul, T_xq,
                                  <<>>, <<" ">>, <<" ", "R", "&", "B", " ">>}

\* _map_to_primary_genre and str.lower on each of them, computed once
PrimaryOf == [t \in MapInputs |-> _map_to_primary_genre(t)]
LowerOf == [t \in MapInputs |-> Lower(t)]

\* variant: the weights of Chartmetric and Spotify exchanged
source_weights_exchanged(source) ==
    CASE source = "chartmetric" -> 30
      [] source = "spotify" -> 35
      [] source = "lastfm" -> 25
      [] source = "genius" -> 10
      [] OTHER -> 10

\* self.source_weights.get(source, 0.1), in hundredths
source_weights(source) ==
    CASE source = "chartmetric" -> 35
      [] source = "spotify" -> 30
      [] source = "lastfm" -> 25
      [] source = "genius" -> 10
      [] OTHER -> 10

\* ---------------------------------------------------------------- database
\* songs table: artist_name and year of first_chart_appearance
N_A == <<"A">>
N_AB == <<"A", " ", "&", " ", "B">>
N_B == <<"B">>

SongIds == 1..4
SongArtist == <<N_A, N_AB, N_B, N_B>>
SongYear == <<2000, 2000, 2000, 2001>>
\* the years batches are run for; song 4 lies outside
Years == {2000}
Subjects == {SongArtist[s] : s \in SongIds}

VARIABLES
    song_genres,            \* rows of song_genres joined with genres: [song_id, genre_name, confidence_score]
    classification_cache,   \* GenreClassificationSystem._classification_cache
    spotify_available,      \* set by the constructor
    runs,                   \* processes started so far
    kind,                   \* "batch" (genre_processing_manager) or "cli" (--artist)
    year,                   \* year of the batch run
    todo,                   \* artists of the run not yet picked up
    pc,                     \* position of the process
    artist,                 \* subject of the classify_artist call in progress
    classifications,        \* profile.classifications being collected
    spotify_has_good_data,
    calls,                  \* sources called so far in this classify_artist call
    last_answer,            \* what the source called last did: "raise", "none", "data"
    result,                 \* profile returned by classify_artist
    path,                   \* how it was produced: "existing", "cached", "voted"
    ncalls,                 \* classify_artist calls made so far
    first_voted,            \* the first voted profile and the answers it was voted from
    vote_in,                \* a classification list handed to _apply_ari_reasoning_engine
    vote_out,               \* the profile it produced
    vote_indicators,        \* profile.crossover_indicators
    models,                 \* MLSubgenreClassifier.models: the genres a model was loaded for
    sub_pc,                 \* position inside MLSubgenreClassifier.classify
    sub_genre,              \* its primary_genre argument
    sub_features,           \* its audio_features argument
    sub_method,             \* its method argument
    ml_outcome,             \* what classify_with_ml did: "no_model", "raised", "predicted"
    rules_entered,          \* classify_with_rules was called
    sub_result,             \* the dictionary classify returns
    set_order,              \* this process's iteration order of a set of strings (hash seed)
    prod_runs,              \* processes that analysed the producers so far
    prod_calls,             \* analyze_producer_contribution calls so far
    song_producers,         \* its song_producers argument
    song_year,              \* its song_year argument
    prod_first,             \* what the first call returned
    prod_out,               \* what the latest call returned
    running,                \* GenreProcessingManager.running
    stats,                  \* GenreProcessingManager.stats
    checkpoint_file,        \* content of processing_checkpoint.json
    m_pc,                   \* position of process_year_songs / process_artists_batch
    total_artists,          \* len(artists) in process_year_songs
    batch_start,            \* i of the loop over batches
    batch_i,                \* i of the loop over the artists of a batch
    m_before,               \* stats when the subject in hand was started
    m_last,                 \* how the subject handled last ended
    last_write,             \* what the latest save_checkpoint call did
    signal_pc,              \* where the process was when the first signal arrived
    song_subgenres,         \* rows of song_subgenres joined with subgenres
    nsaves,                 \* saves of a subject's profile made so far
    last_save,              \* subject, profile and year of the latest save
    rows_before,            \* both tables as they were before the latest save
    save_repeat,            \* the latest save repeated the one before, which was stored
    api_cache,              \* GenreClassificationSystem.api_cache: key -> cached response
    api_cache_file,         \* content of api_cache.json
    helper_call,            \* what the latest _get_<source>_artist_genres call did
    q_title,                \* title argument of generate_search_queries
    q_artist,               \* its artist argument
    q_queries,              \* the list it returned
    q_pc,                   \* "idle", "ready" (arguments chosen), "done"
    FUZZYWUZZY_AVAILABLE,   \* whether the import of fuzzywuzzy succeeded
    genius_title,           \* arguments of _is_good_match
    genius_artist,
    original_title,
    original_artist,
    match_locals,           \* the similarities and the threshold it computed
    match_result,           \* what it returned
    match_pc,               \* "idle", "ready" (arguments chosen), "done"
    s_song_name,            \* arguments of search_song_enhanced
    s_artist_name,
    s_query,                \* index of the query being tried
    s_attempt,              \* attempts made with it
    s_hits,                 \* hits of the latest response
    s_j,                    \* index of the hit being checked
    s_seen,                 \* every hit the service returned during this lookup
    s_result,               \* what search_song_enhanced returned
    s_pc,                   \* "idle", "query", "hits", "done"
    n_artist_name,          \* a subject name, as classify_artist and the matcher receive it
    n_primary_artist,       \* primary_artist of classify_artist
    n_lookups,              \* the source lookups classify_artist made, with the name passed
    n_main_artist,          \* main_artist of _is_good_match, given the name as original_artist
    n_pc,                   \* which of the two has run
    train_tempo,            \* X['tempo'] of a training row after prepare_features
    features_tempo,         \* the tempo entry of the vector classify_with_ml built
    scored_tempo            \* the tempo _calculate_profile_match held against a range

engineVars == <<song_genres, classification_cache, spotify_available, runs, kind, year,
                todo, pc, artist, classifications, spotify_has_good_data, calls, last_answer,
                result, path, ncalls, first_voted>>
voteVars == <<vote_in, vote_out, vote_indicators>>
tempoVars == <<train_tempo, features_tempo, scored_tempo>>
subVars == <<models, sub_pc, sub_genre, sub_features, sub_method, ml_outcome, rules_entered,
             sub_result, tempoVars>>
prodVars == <<set_order, prod_runs, prod_calls, song_producers, song_year, prod_first, prod_out>>
mgrVars == <<running, stats, checkpoint_file, m_pc, total_artists, batch_start, batch_i,
             m_before, m_last, last_write, signal_pc>>
saveVars == <<song_subgenres, nsaves, last_save, rows_before, save_repeat>>
cacheVars == <<api_cache, api_cache_file, helper_call>>
matchVars == <<FUZZYWUZZY_AVAILABLE, genius_title, genius_artist, original_title,
               original_artist, match_locals, match_result, match_pc>>
nameVars == <<n_artist_name, n_primary_artist, n_lookups, n_main_artist, n_pc>>
searchVars == <<s_song_name, s_artist_name, s_query, s_attempt, s_hits, s_j, s_seen,
                s_result, s_pc, nameVars>>
queryVars == <<q_title, q_artist, q_queries, q_pc, matchVars, searchVars>>
extraVars == <<prodVars, mgrVars, saveVars, cacheVars, queryVars>>
\* everything but the variables of one component
besideProd == <<engineVars, voteVars, subVars, mgrVars, saveVars, cacheVars, queryVars>>
besideMgr == <<engineVars, voteVars, subVars, prodVars, saveVars, cacheVars, queryVars>>
besideCache == <<engineVars, voteVars, subVars, prodVars, mgrVars, saveVars, queryVars>>
besideQuery == <<engineVars, voteVars, subVars, prodVars, mgrVars, saveVars, cacheVars>>
besideSave == <<classification_cache, spotify_available, runs, kind, year, todo, pc, artist,
                classifications, spotify_has_good_data, calls, last_answer, result, path,
                ncalls, first_voted, voteVars, subVars, prodVars, mgrVars, cacheVars,
                queryVars>>

\* Songs.artist_name.ilike('%artist%'), optionally first_chart_appearance.like('year%')
SongsQuery(artist_name, yr) ==
    {s \in SongIds : ILikeContains(artist_name, SongArtist[s])
                     /\ (yr = NoYear \/ SongYear[s] = yr)}

\* the query's result for each subject and year, computed once
SongsTable == [a \in Subjects, yr \in Years \cup {NoYear} |-> SongsQuery(a, yr)]

SongsOf(artist_name, yr) == SongsTable[artist_name, yr]

\* SongGenres.confidence_score > 0.8 (SQL comparison on the stored value), over the
\* rows of a given state of the table
HighRowsIn(rows, songs) == {r \in rows : r.song_id \in songs /\ FracGT(r.confidence_score, 8, 10)}

HighRows(songs) == HighRowsIn(song_genres, songs)

\* Numeric(3, 2) read back as a Decimal with two places
DecimalRead(f) == Frac((f.n * 200 + f.d) \div (2 * f.d), 100)

\* A two-place Decimal compared with the float literal 0.8, which is slightly
\* more than 0.80: both `> 0.8` and `>= 0.8` hold from 0.81 up.
DecimalAboveFloat08(dec) == FracGT(dec, 8, 10)

ExistingProfile(artist_name, r) ==
    [artist_name |-> artist_name,
     classifications |-> <<>>,
     primary_genre |-> r.genre_name,
     confidence_score |-> DecimalRead(r.confidence_score),
     secondary_tags |-> {}]

\* The profiles _get_existing_classification may return; {NoProfile} when it returns None.
\* .first() has no ORDER BY, so any high-confidence row may be the one used.
ExistingIn(rows, artist_name, yr) ==
    LET songs == SongsOf(artist_name, yr)
        classified_count == Cardinality(HighRowsIn(rows, songs))
    IN IF songs = {} THEN {NoProfile}
       ELSE IF classified_count = Cardinality(songs) /\ classified_count > 0
            THEN {ExistingProfile(artist_name, r) : r \in HighRowsIn(rows, songs)}
            ELSE {NoProfile}

_get_existing_classification(artist_name, yr) == ExistingIn(song_genres, artist_name, yr)

\* ------------------------------------------------------- primary artist
IsSpace(c) == c = " "

\* re.search(r'\s+tok\s+', s): the match starts at i
MatchesAt(s, i, tok) ==
    \E j \in i..Len(s) :
        /\ \A k \in i..j : IsSpace(s[k])
        /\ j + Len(tok) + 1 <= Len(s)
        /\ SubSeq(s, j + 1, j + Len(tok)) = tok
        /\ IsSpace(s[j + Len(tok) + 1])

featuring_patterns ==
    << {<<"f", "e", "a", "t">>, <<"f", "e", "a", "t", ".">>},
       {<<"f", "t">>, <<"f", "t", ".">>},
       {<<"f", "e", "a", "t", "u", "r", "i", "n", "g">>},
       {<<"w", "i", "t", "h">>},
       {<<"&">>},
       {<<"x">>},
       {<<"+">>} >>

PatternStarts(s, p) == {i \in 1..Len(s) : \E tok \in featuring_patterns[p] : MatchesAt(s, i, tok)}

SetMin(S) == CHOOSE x \in S : \A y \in S : x <= y

_extract_primary_artist(artist_name) ==
    LET s == Strip(Lower(artist_name))
        hit == {p \in DOMAIN featuring_patterns : PatternStarts(s, p) # {}}
    IN IF hit = {} THEN s
       ELSE Strip(SubSeq(s, 1, SetMin(PatternStarts(s, SetMin(hit))) - 1))

\* ------------------------------------------------------ reasoning engine
Weight(c) == source_weights(c.source) * c.confidence

RECURSIVE TotalFor(_, _)
TotalFor(cls, g) ==
    IF cls = <<>> THEN 0
    ELSE (IF PrimaryOf[Head(cls).name] = g THEN Weight(Head(cls)) ELSE 0)
         + TotalFor(Tail(cls), g)

VotedGenres(cls) == {PrimaryOf[cls[i].name] : i \in DOMAIN cls}

FirstIndex(cls, g) == SetMin({i \in DOMAIN cls : PrimaryOf[cls[i].name] = g})

\* max(primary_genre_votes, key=primary_genre_votes.get): the first inserted key of maximal value
Winner(cls) ==
    LET best == {g \in VotedGenres(cls) : \A h \in VotedGenres(cls) : TotalFor(cls, g) >= TotalFor(cls, h)}
    IN CHOOSE g \in best : \A h \in best : FirstIndex(cls, g) <= FirstIndex(cls, h)

RECURSIVE SumTotals(_, _)
SumTotals(cls, gs) ==
    IF gs = {} THEN 0
    ELSE LET g == CHOOSE x \in gs : TRUE
         IN TotalFor(cls, g) + SumTotals(cls, gs \ {g})

SecondaryTagSet(cls) ==
    {LowerOf[cls[i].name] : i \in {k \in DOMAIN cls : LowerOf[cls[k].name] # PrimaryOf[cls[k].name]}}

MaxSecondaryTags == 10

\* list(secondary_tags)[:10]: the possible results, as sets
SecondaryTagChoices(cls) ==
    LET all == SecondaryTagSet(cls)
    IN IF Cardinality(all) <= MaxSecondaryTags THEN {all}
       ELSE {S \in SUBSET all : Cardinality(S) = MaxSecondaryTags}

VotedConfidence(cls) ==
    LET total_weight == SumTotals(cls, VotedGenres(cls))
        primary_weight == TotalFor(cls, Winner(cls))
    IN IF total_weight > 0 THEN Frac(primary_weight, total_weight) ELSE Zero

\* the empty list of indicators; f"primary_{X}_secondary_{Y}" is kept as the pair X, Y
NoIndicators ==
    [multi_genre_crossover |-> FALSE, primary |-> NoName, secondary |-> NoName,
     high_genre_diversity |-> FALSE]

\* sorted_genres[1]: the strongest genre after the first, the earlier one among equals
SecondGenre(cls) ==
    LET rest == VotedGenres(cls) \ {Winner(cls)}
        best == {g \in rest : \A h \in rest : TotalFor(cls, g) >= TotalFor(cls, h)}
    IN CHOOSE g \in best : \A h \in best : FirstIndex(cls, g) <= FirstIndex(cls, h)

\* secondary_strength > primary_strength * 0.6
Significant(secondary_strength, primary_strength) ==
    secondary_strength * 10 > primary_strength * 6

diversity_threshold == 5

_detect_crossover_indicators(cls, tags) ==
    LET crossover == /\ Cardinality(VotedGenres(cls)) >= 2
                     /\ Significant(TotalFor(cls, SecondGenre(cls)),
                                    TotalFor(cls, Winner(cls)))
    IN [multi_genre_crossover |-> crossover,
        primary |-> IF crossover THEN Winner(cls) ELSE NoName,
        secondary |-> IF crossover THEN SecondGenre(cls) ELSE NoName,
        high_genre_diversity |-> Cardinality(tags) > diversity_threshold]

\* variant: without the two fallback assignments the dataclass defaults remain
ReasoningWithoutFallback(artist_name, cls, tags) ==
    IF cls = <<>>
    THEN [artist_name |-> artist_name, classifications |-> cls,
          primary_genre |-> NoName, confidence_score |-> Zero, secondary_tags |-> {}]
    ELSE [artist_name |-> artist_name, classifications |-> cls,
          primary_genre |-> Winner(cls), confidence_score |-> VotedConfidence(cls),
          secondary_tags |-> tags]

\* the profile after _apply_ari_reasoning_engine, given the secondary tags kept
_apply_ari_reasoning_engine(artist_name, cls, tags) ==
    IF cls = <<>>
    THEN [artist_name |-> artist_name, classifications |-> cls,
          primary_genre |-> G_other, confidence_score |-> Zero, secondary_tags |-> {}]
    ELSE [artist_name |-> artist_name, classifications |-> cls,
          primary_genre |-> Winner(cls), confidence_score |-> VotedConfidence(cls),
          secondary_tags |-> tags]

\* ----------------------------------------------------- source adapters
\* What a source call can do: raise, return None / {} (falsy), or return data.
Raised == [kind |-> "raise", genres |-> <<>>]
NoData == [kind |-> "none", genres |-> <<>>]
Data(genres) == [kind |-> "data", genres |-> genres]

SpotifyAnswers == {Raised, NoData, Data(<<>>), Data(<<T_dance_pop>>)}
ChartmetricAnswers == {Raised, NoData, Data(<<T_xq>>)}
\* top_genres entries carry their own confidence (> 0.4), here in tenths
LastfmAnswers == {Raised, NoData, Data(<<[name |-> T_Pop, confidence |-> 10]>>)}

chartmetric_available == TRUE
lastfm_available == TRUE

RECURSIVE Classify(_, _, _)
Classify(genres, conf, source) ==
    IF genres = <<>> THEN <<>>
    ELSE <<[name |-> Head(genres), confidence |-> conf, source |-> source]>>
         \o Classify(Tail(genres), conf, source)

RECURSIVE ClassifyLastfm(_)
ClassifyLastfm(top) ==
    IF top = <<>> THEN <<>>
    ELSE <<[name |-> Head(top).name, confidence |-> Head(top).confidence, source |-> "lastfm"]>>
         \o ClassifyLastfm(Tail(top))

Perms(S) == {f \in [1..Cardinality(S) -> S] : \A i, j \in 1..Cardinality(S) : f[i] = f[j] => i = j}

\* _get_genius_artist_genres: distinct genre names of the artist's songs, in any order
GeniusGenres(artist_name) ==
    Perms({r.genre_name : r \in {x \in song_genres : x.song_id \in SongsOf(artist_name, NoYear)}})

\* cache_key = f"artist_{primary_artist}", for each subject, computed once
CacheKeys == [a \in Subjects |-> _extract_primary_artist(a)]

CacheKey(artist_name) == CacheKeys[artist_name]


\* ------------------------------------------------------------- processes
ArtistsOfYear(yr) == {SongArtist[s] : s \in {x \in SongIds : SongYear[x] = yr}}

CallLocalsReset ==
    /\ classifications' = <<>>
    /\ spotify_has_good_data' = FALSE
    /\ calls' = <<>>
    /\ last_answer' = "none"
    /\ result' = NoProfile
    /\ path' = "none"

\* GenreProcessingManager() + process_year_songs(year), or main() with --artist
StartBatch(yr) ==
    /\ kind' = "batch"
    /\ year' = yr
    /\ todo' = ArtistsOfYear(yr)
    /\ artist' = NoName
    /\ pc' = "loop"

StartCli(a) ==
    /\ kind' = "cli"
    /\ year' = NoYear
    /\ todo' = {}
    /\ artist' = a
    /\ pc' = "classify"

EngineInit ==
    /\ song_genres = {}
    /\ classification_cache = <<>>
    /\ spotify_available \in BOOLEAN
    /\ runs = 1
    /\ kind = "batch"
    /\ year \in Years
    /\ todo = ArtistsOfYear(year)
    /\ artist = NoName
    /\ pc = "loop"
    /\ classifications = <<>>
    /\ spotify_has_good_data = FALSE
    /\ calls = <<>>
    /\ last_answer = "none"
    /\ result = NoProfile
    /\ path = "none"
    /\ ncalls = 0
    /\ first_voted = NoProfile

\* no list has been handed to the reasoning engine on its own
VoteIdle ==
    /\ vote_in = <<>>
    /\ vote_out = NoProfile
    /\ vote_indicators = NoIndicators

NoResult == [subgenre |-> None, confidence |-> Zero, method |-> None, primary_genre |-> NoName]

\* no tempo has been read
NoTempo == -1

\* neither the trainer nor the classifier has looked at a tempo
TempoIdle ==
    /\ train_tempo = NoTempo
    /\ features_tempo = NoTempo
    /\ scored_tempo = NoTempo

\* no MLSubgenreClassifier has been constructed
SubIdle ==
    /\ TempoIdle
    /\ models = {}
    /\ sub_pc = "idle"
    /\ sub_genre = NoName
    /\ sub_features = <<>>
    /\ sub_method = None
    /\ ml_outcome = None
    /\ rules_entered = FALSE
    /\ sub_result = NoResult

\* analyze_producer_contribution has not been called
NoAnalysis == [none |-> TRUE]

ProdIdle ==
    /\ set_order = <<>>
    /\ prod_runs = 0
    /\ prod_calls = 0
    /\ song_producers = <<>>
    /\ song_year = NoYear
    /\ prod_first = NoAnalysis
    /\ prod_out = NoAnalysis

NoCheckpoint == [none |-> TRUE]
NoStats == [total_processed |-> 0, successful |-> 0, failed |-> 0, skipped |-> 0]

\* no GenreProcessingManager has been constructed
MgrIdle ==
    /\ running = TRUE
    /\ stats = NoStats
    /\ checkpoint_file = NoCheckpoint
    /\ m_pc = "idle"
    /\ total_artists = 0
    /\ batch_start = 0
    /\ batch_i = 0
    /\ m_before = NoStats
    /\ m_last = None
    /\ last_write = None
    /\ signal_pc = None

NoSave == [none |-> TRUE]
NoRows == [genres |-> {}, subgenres |-> {}]

\* the subgenre table is empty and no save is being followed
SaveIdle ==
    /\ song_subgenres = {}
    /\ nsaves = 0
    /\ last_save = NoSave
    /\ rows_before = NoRows
    /\ save_repeat = FALSE

\* the response cache is empty, on disk and in memory, and no helper has been called
CacheIdle ==
    /\ api_cache = <<>>
    /\ api_cache_file = <<>>
    /\ helper_call = None

\* what _is_good_match computes when fuzzywuzzy is missing: no similarity at all
NoSimilarities ==
    [scored |-> FALSE, title_similarity |-> 0, title_similarity_no_feat |-> 0,
     title_similarity_no_article |-> 0, title_similarity_no_parens |-> 0,
     artist_similarity |-> 0, best_title_similarity |-> 0, artist_threshold |-> 0,
     contained |-> FALSE]

\* _is_good_match has not been called
MatchIdle ==
    /\ FUZZYWUZZY_AVAILABLE = TRUE
    /\ genius_title = <<>>
    /\ genius_artist = <<>>
    /\ original_title = <<>>
    /\ original_artist = <<>>
    /\ match_locals = NoSimilarities
    /\ match_result = FALSE
    /\ match_pc = "idle"

\* GeniusResult(success=False, ...)
NoMatchFound == [success |-> FALSE, title |-> <<>>, artist |-> <<>>, id |-> 0]

\* search_song_enhanced has not been called
\* no subject name is in hand
NameIdle ==
    /\ n_artist_name = <<>>
    /\ n_primary_artist = <<>>
    /\ n_lookups = {}
    /\ n_main_artist = <<>>
    /\ n_pc = {}

SearchIdle ==
    /\ NameIdle
    /\ s_song_name = <<>>
    /\ s_artist_name = <<>>
    /\ s_query = 0
    /\ s_attempt = 0
    /\ s_hits = <<>>
    /\ s_j = 0
    /\ s_seen = {}
    /\ s_result = NoMatchFound
    /\ s_pc = "idle"

\* generate_search_queries has not been called
QueryIdle ==
    /\ q_title = <<>>
    /\ q_artist = <<>>
    /\ q_queries = <<>>
    /\ q_pc = "idle"
    /\ MatchIdle
    /\ SearchIdle

\* nothing outside the classification engine is in use
ExtraIdle == ProdIdle /\ MgrIdle /\ SaveIdle /\ CacheIdle /\ QueryIdle

Init == EngineInit /\ VoteIdle /\ SubIdle /\ ExtraIdle

\* a later process: the database persists, the in-memory cache does not
NewProcessB(max_calls) ==
    /\ pc \in {"loop", "exit"}
    /\ runs < MaxRuns
    /\ runs' = runs + 1
    /\ classification_cache' = <<>>
    /\ UNCHANGED spotify_available
    /\ \/ \E yr \in Years : StartBatch(yr) /\ UNCHANGED ncalls
       \/ \E a \in Subjects : StartCli(a) /\ ncalls < max_calls /\ ncalls' = ncalls + 1
    /\ CallLocalsReset
    /\ UNCHANGED <<song_genres, first_voted, voteVars, subVars, extraVars>>

\* process_artists_batch: loop head and the already-classified check
BatchCheckB(max_calls) ==
    /\ pc = "loop"
    /\ kind = "batch"
    /\ \E a \in todo :
         /\ todo' = todo \ {a}
         /\ artist' = a
         /\ \E existing \in _get_existing_classification(a, year) :
              /\ result' = existing
              /\ IF existing # NoProfile /\ DecimalAboveFloat08(existing.confidence_score)
                 THEN pc' = "skipped" /\ path' = "skipped" /\ UNCHANGED ncalls
                 ELSE /\ pc' = "classify"
                      /\ path' = "none"
                      /\ ncalls < max_calls
                      /\ ncalls' = ncalls + 1
    /\ classifications' = <<>>
    /\ spotify_has_good_data' = FALSE
    /\ calls' = <<>>
    /\ last_answer' = "none"
    /\ UNCHANGED <<song_genres, classification_cache, spotify_available, runs, kind, year, first_voted, voteVars, subVars, extraVars>>

\* the `continue` after a skip
Continue ==
    /\ pc = "skipped"
    /\ pc' = "loop"
    /\ artist' = NoName
    /\ CallLocalsReset
    /\ UNCHANGED <<song_genres, classification_cache, spotify_available, runs, kind, year,
                   todo, ncalls, first_voted, voteVars, subVars, extraVars>>

\* classify_artist, up to the first source call
ClassifyEntry ==
    /\ pc = "classify"
    /\ \E existing \in _get_existing_classification(artist, NoYear) :
         IF existing # NoProfile /\ DecimalAboveFloat08(existing.confidence_score)
         THEN /\ result' = existing
              /\ path' = "existing"
              /\ pc' = "returned"
         ELSE IF CacheKey(artist) \in DOMAIN classification_cache
         THEN /\ result' = classification_cache[CacheKey(artist)]
              /\ path' = "cached"
              /\ pc' = "returned"
         ELSE /\ result' = NoProfile
              /\ path' = "none"
              /\ pc' = "spotify"
    /\ classifications' = <<>>
    /\ spotify_has_good_data' = FALSE
    /\ calls' = <<>>
    /\ last_answer' = "none"
    /\ UNCHANGED <<song_genres, classification_cache, spotify_available, runs, kind, year,
                   todo, artist, ncalls, first_voted, voteVars, subVars, extraVars>>

\* `if not spotify_has_good_data:` decides whether Chartmetric is asked
AfterSpotifyAlwaysChartmetric(good) == "chartmetric"

AfterSpotifySkipsLastfm(good) == IF good THEN "genius" ELSE "chartmetric"

AfterSpotify(good) == IF good THEN "lastfm" ELSE "chartmetric"

\* 1. Spotify
CallSpotify ==
    /\ pc = "spotify"
    /\ IF spotify_available
       THEN \E ans \in SpotifyAnswers :
              /\ calls' = Append(calls, "spotify")
              /\ last_answer' = ans.kind
              /\ IF ans.kind = "data" /\ ans.genres # <<>>
                 THEN /\ classifications' = classifications \o Classify(ans.genres, 7, "spotify")
                      /\ spotify_has_good_data' = TRUE
                 ELSE UNCHANGED <<classifications, spotify_has_good_data>>
       ELSE UNCHANGED <<calls, last_answer, classifications, spotify_has_good_data>>
    /\ pc' = AfterSpotify(spotify_has_good_data')
    /\ UNCHANGED <<song_genres, classification_cache, spotify_available, runs, kind, year,
                   todo, artist, result, path, ncalls, first_voted, voteVars, subVars, extraVars>>

\* 2. Chartmetric, only if Spotify gave no genres
CallChartmetric ==
    /\ pc = "chartmetric"
    /\ IF chartmetric_available
       THEN \E ans \in ChartmetricAnswers :
              /\ calls' = Append(calls, "chartmetric")
              /\ last_answer' = ans.kind
              /\ IF ans.kind = "data"
                 THEN classifications' = classifications \o Classify(ans.genres, 8, "chartmetric")
                 ELSE UNCHANGED classifications
       ELSE UNCHANGED <<calls, last_answer, classifications>>
    /\ pc' = "lastfm"
    /\ UNCHANGED <<song_genres, classification_cache, spotify_available, runs, kind, year,
                   todo, artist, spotify_has_good_data, result, path, ncalls, first_voted, voteVars, subVars, extraVars>>

\* 3. Last.fm
CallLastfm ==
    /\ pc = "lastfm"
    /\ IF lastfm_available
       THEN \E ans \in LastfmAnswers :
              /\ calls' = Append(calls, "lastfm")
              /\ last_answer' = ans.kind
              /\ IF ans.kind = "data"
                 THEN classifications' = classifications \o ClassifyLastfm(ans.genres)
                 ELSE UNCHANGED classifications
       ELSE UNCHANGED <<calls, last_answer, classifications>>
    /\ pc' = "genius"
    /\ UNCHANGED <<song_genres, classification_cache, spotify_available, runs, kind, year,
                   todo, artist, spotify_has_good_data, result, path, ncalls, first_voted, voteVars, subVars, extraVars>>

\* 4. Genius (the genres already in the database; a failed query yields []),
\* then the reasoning engine; the profile is cached and returned
CallGeniusAndReason ==
    /\ pc = "genius"
    /\ calls' = Append(calls, "genius")
    /\ \E ans \in {Raised} \cup {Data(g) : g \in GeniusGenres(artist)} :
         /\ last_answer' = ans.kind
         /\ classifications' = classifications \o Classify(ans.genres, 6, "genius")
         /\ \E tags \in SecondaryTagChoices(classifications') :
              LET profile == _apply_ari_reasoning_engine(artist, classifications', tags)
              IN /\ result' = profile
                 /\ classification_cache' = (CacheKey(artist) :> profile) @@ classification_cache
    /\ path' = "voted"
    /\ pc' = "returned"
    /\ UNCHANGED <<song_genres, spotify_available, runs, kind, year, todo, artist,
                   spotify_has_good_data, ncalls, first_voted, voteVars, subVars, extraVars>>

\* save_artist_classification that looks no song-genre pair up before adding its rows
SavedRowsUnchecked(artist_name, profile, yr) ==
    IF profile.primary_genre = NoName THEN {}
    ELSE {[song_id |-> s, genre_name |-> profile.primary_genre,
           confidence_score |-> profile.confidence_score] : s \in SongsOf(artist_name, yr)}

\* save_artist_classification(artist, profile, year)
SavedRows(artist_name, profile, yr) ==
    IF profile.primary_genre = NoName THEN {}
    ELSE {[song_id |-> s, genre_name |-> profile.primary_genre,
           confidence_score |-> profile.confidence_score] :
            s \in {x \in SongsOf(artist_name, yr) :
                     ~\E r \in song_genres : r.song_id = x /\ r.genre_name = profile.primary_genre}}

\* the classifications that came from the external sources
External(cls) == SelectSeq(cls, LAMBDA c : c.source # "genius")

Remember(profile) ==
    [artist_name |-> profile.artist_name, external |-> External(profile.classifications),
     primary_genre |-> profile.primary_genre,
     confidence_score |-> profile.confidence_score, secondary_tags |-> profile.secondary_tags]

\* back in the caller: the batch saves the profile (the write may be rejected
\* and is then rolled back and logged), the command line prints it
AfterClassifyB(remember) ==
    /\ pc = "returned"
    /\ IF kind = "batch"
       THEN /\ \/ song_genres' = song_genres \cup SavedRows(artist, result, year)
               \/ UNCHANGED song_genres
            /\ pc' = "loop"
       ELSE /\ UNCHANGED song_genres
            /\ pc' = "exit"
    /\ first_voted' = IF remember /\ path = "voted" /\ first_voted = NoProfile
                      THEN Remember(result)
                      ELSE first_voted
    /\ artist' = NoName
    /\ CallLocalsReset
    /\ UNCHANGED <<classification_cache, spotify_available, runs, kind, year, todo, ncalls, voteVars, subVars, extraVars>>

NewProcess == NewProcessB(MaxCalls)
BatchCheck == BatchCheckB(MaxCalls)
NewProcessDeep == NewProcessB(DeepCalls)
BatchCheckDeep == BatchCheckB(DeepCalls)
AfterClassify == AfterClassifyB(FALSE)
\* the same, keeping the first voted profile for comparison with later ones
AfterClassifyDeep == AfterClassifyB(TRUE)

vars == <<engineVars, voteVars, subVars, extraVars>>

Next ==
    \/ NewProcess
    \/ BatchCheck
    \/ Continue
    \/ ClassifyEntry
    \/ CallSpotify
    \/ CallChartmetric
    \/ CallLastfm
    \/ CallGeniusAndReason
    \/ AfterClassify

Spec == Init /\ [][Next]_vars

\* the same program followed over one more classify_artist call
NextDeep ==
    \/ NewProcessDeep
    \/ BatchCheckDeep
    \/ Continue
    \/ ClassifyEntry
    \/ CallSpotify
    \/ CallChartmetric
    \/ CallLastfm
    \/ CallGeniusAndReason
    \/ AfterClassifyDeep

SpecDeep == Init /\ [][NextDeep]_vars

\* ------------------------------------------- the reasoning engine alone
\* classifications as the four sources produce them: confidence in tenths
\* (Spotify 0.7, Chartmetric 0.8, Genius 0.6, Last.fm its own, here 0.5)
VoteTags == {T_dance_pop, T_rap_rock, T_soul, T_xq}
VoteSources == {[source |-> "spotify", confidence |-> 7],
                [source |-> "chartmetric", confidence |-> 8],
                [source |-> "lastfm", confidence |-> 5],
                [source |-> "genius", confidence |-> 6]}
VoteClassifications ==
    {[name |-> t, confidence |-> v.confidence, source |-> v.source] : t \in VoteTags, v \in VoteSources}

VoteLists == UNION {[1..n -> VoteClassifications] : n \in 0..MaxVotes}

InitVote ==
    /\ EngineInit
    /\ spotify_available
    /\ vote_in \in VoteLists
    /\ vote_out = NoProfile
    /\ vote_indicators = NoIndicators
    /\ SubIdle
    /\ ExtraIdle

\* _apply_ari_reasoning_engine(profile) on a profile holding vote_in
ApplyVote ==
    /\ vote_out = NoProfile
    /\ \E tags \in SecondaryTagChoices(vote_in) :
         /\ vote_out' = _apply_ari_reasoning_engine(N_A, vote_in, tags)
         /\ vote_indicators' = IF vote_in = <<>> THEN NoIndicators
                                ELSE _detect_crossover_indicators(vote_in, tags)
    /\ UNCHANGED <<engineVars, vote_in, subVars, extraVars>>

NextVote == ApplyVote

SpecVote == InitVote /\ [][NextVote]_vars

\* ------------------------------------ the reasoning engine on more tags
\* tags that are names of primary genres among them, Last.fm with three confidences
CrossTags == {T_dance_pop, T_Pop, G_rock, T_soul}
CrossSources == {[source |-> "spotify", confidence |-> 7],
                 [source |-> "lastfm", confidence |-> 10],
                 [source |-> "lastfm", confidence |-> 6],
                 [source |-> "genius", confidence |-> 6]}
CrossClassifications ==
    {[name |-> t, confidence |-> v.confidence, source |-> v.source] :
        t \in CrossTags, v \in CrossSources}

\* six tags that differ from the genre they map to, and the first five of them
DiverseTags == <<T_dance_pop, T_rap, T_rap_rock, T_soul, T_xq, <<" ", "R", "&", "B", " ">>>>
DiverseList(n) == [i \in 1..n |-> [name |-> DiverseTags[i], confidence |-> 7,
                                   source |-> "spotify"]]

MaxCrossVotes == 2
CrossLists ==
    UNION {[1..n -> CrossClassifications] : n \in 0..MaxCrossVotes}
        \cup {DiverseList(5), DiverseList(6)}

InitCross ==
    /\ EngineInit
    /\ spotify_available
    /\ vote_in \in CrossLists
    /\ vote_out = NoProfile
    /\ vote_indicators = NoIndicators
    /\ SubIdle
    /\ ExtraIdle

SpecCross == InitCross /\ [][NextVote]_vars

\* ------------------------------------------------- subgenre classifier
\* SubgenreModelTrainer.adjust_tempo; tempos are whole BPM written in hundredths,
\* so the halves are exact
adjust_tempo(tempo) ==
    IF tempo > 20000 THEN tempo \div 2
    ELSE IF tempo < 10000 THEN tempo * 2
    ELSE tempo

\* GENRE_FEATURE_IMPORTANCE.get(primary_genre, default): the columns a model is
\* trained on, kept in its package as feature_cols
feature_cols(primary_genre) ==
    IF primary_genre = G_pop
    THEN <<"danceability", "energy", "valence", "tempo", "loudness">>
    ELSE <<"tempo", "energy", "loudness", "danceability", "duration_ms">>

Cols(primary_genre) == {feature_cols(primary_genre)[i] : i \in DOMAIN feature_cols(primary_genre)}

\* the loop body of classify_with_ml: audio_features.get(col, 0), the tempo adjusted
InferenceValue(audio_features, col) ==
    LET value == IF col \in DOMAIN audio_features THEN audio_features[col] ELSE 0
    IN IF col = "tempo"
       THEN IF value > 20000 THEN value \div 2
            ELSE IF value < 10000 THEN value * 2
            ELSE value
       ELSE value

\* RULE_BASED_SUBGENRES, in dictionary order; ranges in hundredths
RULE_BASED_SUBGENRES(g) ==
    IF g = G_jazz
    THEN << [subgenre |-> "smooth-jazz",
             profile |-> <<[feature |-> "acousticness", min |-> 40, max |-> 80],
                           [feature |-> "energy", min |-> 30, max |-> 60]>>],
            [subgenre |-> "bebop",
             profile |-> <<[feature |-> "tempo", min |-> 20000, max |-> 35000],
                           [feature |-> "instrumentalness", min |-> 50, max |-> 100]>>],
            [subgenre |-> "jazz-fusion",
             profile |-> <<[feature |-> "energy", min |-> 60, max |-> 90],
                           [feature |-> "instrumentalness", min |-> 30, max |-> 80]>>] >>
    ELSE IF g = G_folk
    THEN << [subgenre |-> "folk-rock",
             profile |-> <<[feature |-> "energy", min |-> 50, max |-> 80],
                           [feature |-> "acousticness", min |-> 40, max |-> 70]>>],
            [subgenre |-> "singer-songwriter",
             profile |-> <<[feature |-> "acousticness", min |-> 60, max |-> 90],
                           [feature |-> "speechiness", min |-> 3, max |-> 15]>>],
            [subgenre |-> "americana",
             profile |-> <<[feature |-> "acousticness", min |-> 50, max |-> 80],
                           [feature |-> "valence", min |-> 40, max |-> 70]>>] >>
    ELSE <<>>

\* variant: the jazz profiles missing from the table
RuleGenresWithoutJazz == {G_folk}

RuleGenres == {G_jazz, G_folk}

\* min_val * 0.8 in double precision: 0.4 * 0.8 is 0.32000000000000006, above the
\* exact product, so a value of 0.32 is below it; every other product of the table
\* (min_val * 0.8 and max_val * 1.2) compares with values in hundredths as the
\* exact product does
RoundsAbove(min_val) == min_val = 40

\* "min_val * 0.8 <= value"
LowerEdgeLE(min_val, value) ==
    IF RoundsAbove(min_val) THEN min_val * 8 < value * 10 ELSE min_val * 8 <= value * 10

\* one feature of a profile: 2 for a value in range, 1 for a near miss, in halves
FeatureCredit(value, r) ==
    IF r.min <= value /\ value <= r.max THEN 2
    ELSE IF (r.min <= value /\ value * 10 <= r.max * 12)
            \/ (LowerEdgeLE(r.min, value) /\ value <= r.max) THEN 1
    ELSE 0

\* "value = audio_features[feature]": the value held against the range
ScoredValue(audio_features, feature) == audio_features[feature]

RECURSIVE ProfileMatches(_, _)
ProfileMatches(audio_features, profile) ==
    IF profile = <<>> THEN [matches |-> 0, total |-> 0]
    ELSE LET rest == ProfileMatches(audio_features, Tail(profile))
             r == Head(profile)
         IN IF r.feature \in DOMAIN audio_features
            THEN [matches |-> rest.matches
                              + FeatureCredit(ScoredValue(audio_features, r.feature), r),
                  total |-> rest.total + 1]
            ELSE rest

_calculate_profile_match(audio_features, profile) ==
    LET m == ProfileMatches(audio_features, profile)
    IN IF m.total > 0 THEN Frac(m.matches, 2 * m.total) ELSE Zero

\* the loop of classify_with_rules: a later profile wins only with a greater score
RECURSIVE BestMatch(_, _, _)
BestMatch(audio_features, profiles, best) ==
    IF profiles = <<>> THEN best
    ELSE LET score == _calculate_profile_match(audio_features, Head(profiles).profile)
         IN BestMatch(audio_features, Tail(profiles),
                      IF FracGT(score, best.score.n, best.score.d)
                      THEN [match |-> Head(profiles).subgenre, score |-> score]
                      ELSE best)

classify_with_rules(primary_genre, audio_features) ==
    IF primary_genre \notin RuleGenres THEN [subgenre |-> None, confidence |-> Zero]
    ELSE LET best == BestMatch(audio_features, RULE_BASED_SUBGENRES(primary_genre),
                               [match |-> None, score |-> Zero])
         IN IF FracGE(best.score, 6, 10)
            THEN [subgenre |-> best.match, confidence |-> best.score]
            ELSE [subgenre |-> None, confidence |-> best.score]

\* what the pickled model does when asked: it raises, or it predicts a label
\* with the largest class probability (in hundredths)
MLAnswers == {[kind |-> "raise", label |-> None, probability |-> 0],
              [kind |-> "data", label |-> "dance-pop", probability |-> 35],
              [kind |-> "data", label |-> "dance-pop", probability |-> 95]}

\* classify_with_ml: the possible returns, with what happened
classify_with_ml(primary_genre, audio_features) ==
    IF primary_genre \notin models
    THEN {[subgenre |-> None, confidence |-> Zero, outcome |-> "no_model"]}
    ELSE {IF ans.kind = "raise"
          THEN [subgenre |-> None, confidence |-> Zero, outcome |-> "raised"]
          ELSE [subgenre |-> ans.label, confidence |-> Frac(ans.probability, 100),
                outcome |-> "predicted"] : ans \in MLAnswers}

MLAllowed(method) == method \in {"ml", "auto"}

\* variant: the rules are tried whatever the method
RulesAlwaysAllowed(method) == TRUE

RulesAllowed(method) == method \in {"rules", "auto"}

\* the features some profile of the genre has a range for
RuleFeatures(primary_genre) ==
    IF primary_genre \notin RuleGenres THEN {}
    ELSE LET ps == RULE_BASED_SUBGENRES(primary_genre)
         IN {ps[i].profile[j].feature : i \in DOMAIN ps, j \in {1, 2}}

SubGenres == {G_pop, G_jazz, G_folk, G_unknown}
ModelGenres == {G_pop, G_jazz}
Methods == {"ml", "rules", "auto"}
FeatureInputs ==
    { <<>>,
      [f \in {"acousticness", "energy"} |-> IF f = "energy" THEN 50 ELSE 60],
      [f \in {"energy", "instrumentalness"} |-> IF f = "energy" THEN 70 ELSE 90],
      [f \in {"tempo"} |-> 9000] }

\* MLSubgenreClassifier() with some models on disk, then classify(...) is called
InitSub ==
    /\ EngineInit
    /\ spotify_available
    /\ VoteIdle
    /\ ExtraIdle
    /\ models \in SUBSET ModelGenres
    /\ sub_pc = "ml_stage"
    /\ sub_genre \in SubGenres
    /\ sub_features \in FeatureInputs
    /\ sub_method \in Methods
    /\ ml_outcome = None
    /\ rules_entered = FALSE
    /\ sub_result = [NoResult EXCEPT !.primary_genre = sub_genre]
    /\ TempoIdle

\* "Try ML first if available and method allows"
MLStage ==
    /\ sub_pc = "ml_stage"
    /\ IF MLAllowed(sub_method)
       THEN \E r \in classify_with_ml(sub_genre, sub_features) :
              /\ ml_outcome' = r.outcome
              /\ IF r.subgenre # None
                 THEN /\ sub_result' = [sub_result EXCEPT !.subgenre = r.subgenre,
                                           !.confidence = r.confidence, !.method = "ml"]
                      /\ sub_pc' = "done"
                 ELSE /\ sub_pc' = "rules_stage"
                      /\ UNCHANGED sub_result
       ELSE /\ sub_pc' = "rules_stage"
            /\ UNCHANGED <<ml_outcome, sub_result>>
    /\ features_tempo' = IF MLAllowed(sub_method) /\ sub_genre \in models
                             /\ "tempo" \in Cols(sub_genre)
                          THEN InferenceValue(sub_features, "tempo")
                          ELSE features_tempo
    /\ UNCHANGED <<engineVars, voteVars, extraVars, models, sub_genre, sub_features,
                   sub_method, rules_entered, train_tempo, scored_tempo>>

\* "Fall back to rules if ML not available or failed", else no classification
RulesStage ==
    /\ sub_pc = "rules_stage"
    /\ IF RulesAllowed(sub_method)
       THEN LET r == classify_with_rules(sub_genre, sub_features)
            IN /\ rules_entered' = TRUE
               /\ sub_result' = IF r.subgenre # None
                                 THEN [sub_result EXCEPT !.subgenre = r.subgenre,
                                         !.confidence = r.confidence, !.method = "rules"]
                                 ELSE [sub_result EXCEPT !.method = "none"]
       ELSE /\ sub_result' = [sub_result EXCEPT !.method = "none"]
            /\ UNCHANGED rules_entered
    /\ sub_pc' = "done"
    /\ scored_tempo' = IF RulesAllowed(sub_method) /\ "tempo" \in RuleFeatures(sub_genre)
                           /\ "tempo" \in DOMAIN sub_features
                        THEN ScoredValue(sub_features, "tempo")
                        ELSE scored_tempo
    /\ UNCHANGED <<engineVars, voteVars, extraVars, models, sub_genre, sub_features,
                   sub_method, ml_outcome, train_tempo, features_tempo>>

NextSub ==
    \/ MLStage
    \/ RulesStage

SpecSub == InitSub /\ [][NextSub]_vars

\* feature dictionaries around the edges of the jazz and folk ranges
Features2(f1, v1, f2, v2) == [f \in {f1, f2} |-> IF f = f1 THEN v1 ELSE v2]
RuleInputs ==
    FeatureInputs \cup
    { Features2("acousticness", a, "energy", 50) : a \in {20, 31, 32, 33, 96, 97} } \cup
    { Features2("acousticness", 50, "energy", e) : e \in {10, 24, 72, 73} } \cup
    { [f \in {"acousticness", "energy", "instrumentalness"} |-> 60] }

\* classify(...) is called with features near the ranges of the rule profiles
InitRules ==
    /\ EngineInit
    /\ spotify_available
    /\ VoteIdle
    /\ ExtraIdle
    /\ models \in SUBSET ModelGenres
    /\ sub_pc = "ml_stage"
    /\ sub_genre \in SubGenres
    /\ sub_features \in RuleInputs
    /\ sub_method \in Methods
    /\ ml_outcome = None
    /\ rules_entered = FALSE
    /\ sub_result = [NoResult EXCEPT !.primary_genre = sub_genre]
    /\ TempoIdle

SpecRules == InitRules /\ [][NextSub]_vars

\* raw tempos in hundredths of a BPM
Tempos == {6000, 9900, 10000, 15000, 20000, 20100, 22000, 30000, 45000}
TempoInputs == {[f \in {"tempo", "instrumentalness"} |-> IF f = "tempo" THEN t ELSE 70] :
                  t \in Tempos}

\* a song with these features is classified, and a row with the same features is
\* in the training data
InitTempo ==
    /\ EngineInit
    /\ spotify_available
    /\ VoteIdle
    /\ ExtraIdle
    /\ models \in SUBSET ModelGenres
    /\ sub_pc = "ml_stage"
    /\ sub_genre \in SubGenres
    /\ sub_features \in TempoInputs
    /\ sub_method \in Methods
    /\ ml_outcome = None
    /\ rules_entered = FALSE
    /\ sub_result = [NoResult EXCEPT !.primary_genre = sub_genre]
    /\ TempoIdle

\* SubgenreModelTrainer.prepare_features on the row: "Adjust tempo if it's a feature"
prepare_features ==
    /\ train_tempo = NoTempo
    /\ "tempo" \in Cols(sub_genre)
    /\ train_tempo' = adjust_tempo(sub_features["tempo"])
    /\ UNCHANGED <<engineVars, voteVars, extraVars, models, sub_pc, sub_genre, sub_features,
                   sub_method, ml_outcome, rules_entered, sub_result, features_tempo,
                   scored_tempo>>

NextTempo ==
    \/ prepare_features
    \/ MLStage
    \/ RulesStage

SpecTempo == InitTempo /\ [][NextTempo]_vars

\* ------------------------------------------------ producer enrichment
P_Max_Martin == <<"M", "a", "x", " ", "M", "a", "r", "t", "i", "n">>
P_max_martin == <<"m", "a", "x", " ", "m", "a", "r", "t", "i", "n">>
P_max_padded == <<" ", "m", "a", "x", " ">>
P_max == <<"m", "a", "x">>
P_rami == <<"r", "a", "m", "i">>
P_xq == <<"x", "q">>

\* the rows of the pop specialists met in the inputs below
PRODUCER_GENRE_SIGNATURES ==
    [p \in {P_max_martin, P_rami} |->
        IF p = P_max_martin
        THEN [primary |-> G_pop, subgenres |-> <<"dance-pop", "teen-pop", "electropop">>,
              confidence |-> 95]
        ELSE [primary |-> G_pop, subgenres |-> <<"dance-pop", "electropop">>,
              confidence |-> 90]]

\* the eras of pop that the years below fall in, in the order of the dictionary
ERA_BASED_SUBGENRES ==
    [g \in {G_pop} |->
        << [start |-> 2000, end |-> 2004, subgenres |-> <<"teen-pop", "dance-pop">>],
           [start |-> 2010, end |-> 2015, subgenres |-> <<"electropop", "indie-pop">>] >>]

PRODUCER_NAME_VARIATIONS == [p \in {P_max} |-> P_max_martin]

SubgenreLabels == {"dance-pop", "teen-pop", "electropop", "indie-pop"}

\* the orders in which a process may iterate over a set of these strings: the order follows
\* the strings' hashes, which are salted anew in every process
SetOrders == {o \in [1..Cardinality(SubgenreLabels) -> SubgenreLabels] :
                 \A i, j \in DOMAIN o : i # j => o[i] # o[j]}

SeqRange(xs) == {xs[i] : i \in DOMAIN xs}

\* list(set(xs)) in a process whose sets iterate in the given order
ListOfSet(xs, order) == SelectSeq(order, LAMBDA x : x \in SeqRange(xs))

get_era_subgenres(genre, yr) ==
    IF genre \notin DOMAIN ERA_BASED_SUBGENRES THEN <<>>
    ELSE LET era_map == ERA_BASED_SUBGENRES[genre]
             hit == {i \in DOMAIN era_map : era_map[i].start <= yr /\ yr <= era_map[i].end}
         IN IF hit = {} THEN <<>> ELSE era_map[SetMin(hit)].subgenres

NoSignature == [none |-> TRUE]

get_producer_subgenres(producer_name, yr, order) ==
    LET stripped == Strip(Lower(producer_name))
        producer_lower == IF stripped \in DOMAIN PRODUCER_NAME_VARIATIONS
                          THEN PRODUCER_NAME_VARIATIONS[stripped] ELSE stripped
    IN IF producer_lower \in DOMAIN PRODUCER_GENRE_SIGNATURES
       THEN LET signature == PRODUCER_GENRE_SIGNATURES[producer_lower]
                era_subgenres == get_era_subgenres(signature.primary, yr)
            IN IF yr # NoYear /\ signature.primary \in DOMAIN ERA_BASED_SUBGENRES
                  /\ era_subgenres # <<>>
               THEN [signature EXCEPT
                        !.subgenres = ListOfSet(signature.subgenres \o era_subgenres, order)]
               ELSE signature
       ELSE NoSignature

\* collections.Counter(xs).most_common(n): by count, equal counts in order of first insertion
CountOf(xs, x) == Cardinality({i \in DOMAIN xs : xs[i] = x})

FirstAt(xs, x) == SetMin({i \in DOMAIN xs : xs[i] = x})

RankOf(xs, x) ==
    Cardinality({y \in SeqRange(xs) :
                    \/ CountOf(xs, y) > CountOf(xs, x)
                    \/ CountOf(xs, y) = CountOf(xs, x) /\ FirstAt(xs, y) < FirstAt(xs, x)})

most_common(xs, n) ==
    LET k == IF Cardinality(SeqRange(xs)) < n THEN Cardinality(SeqRange(xs)) ELSE n
    IN [i \in 1..k |-> CHOOSE x \in SeqRange(xs) : RankOf(xs, x) = i - 1]

TopSubgenres == 3

RECURSIVE AllSubgenres(_, _, _)
AllSubgenres(producers, yr, order) ==
    IF producers = <<>> THEN <<>>
    ELSE LET signature == get_producer_subgenres(Head(producers), yr, order)
         IN (IF signature = NoSignature THEN <<>> ELSE signature.subgenres)
            \o AllSubgenres(Tail(producers), yr, order)

RECURSIVE TotalConfidence(_, _, _)
TotalConfidence(producers, yr, order) ==
    IF producers = <<>> THEN 0
    ELSE LET signature == get_producer_subgenres(Head(producers), yr, order)
         IN (IF signature = NoSignature THEN 0 ELSE signature.confidence)
            + TotalConfidence(Tail(producers), yr, order)

analyze_producer_contribution(producers, yr, order) ==
    IF producers = <<>> \/ AllSubgenres(producers, yr, order) = <<>> THEN NoAnalysis
    ELSE LET average == Frac(TotalConfidence(producers, yr, order), 100 * Len(producers))
         IN [suggested_subgenres |-> most_common(AllSubgenres(producers, yr, order), TopSubgenres),
             confidence |-> IF FracGE(average, 1, 1) THEN Frac(1, 1) ELSE average,
             num_producers |-> Cardinality({i \in DOMAIN producers :
                                  get_producer_subgenres(producers[i], yr, order) # NoSignature}),
             source |-> "producer_specialization"]

ProducerNames == {P_Max_Martin, P_max_padded, P_rami, P_xq}
MaxProducers == 2
ProducerLists == UNION {[1..n -> ProducerNames] : n \in 0..MaxProducers}
ProducerYears == {NoYear, 2002, 2012}

\* a song's credits and year, and the first process that enriches it
InitProd ==
    /\ EngineInit
    /\ spotify_available
    /\ VoteIdle
    /\ SubIdle
    /\ MgrIdle
    /\ SaveIdle
    /\ CacheIdle
    /\ QueryIdle
    /\ set_order \in SetOrders
    /\ prod_runs = 1
    /\ prod_calls = 0
    /\ song_producers \in ProducerLists
    /\ song_year \in ProducerYears
    /\ prod_first = NoAnalysis
    /\ prod_out = NoAnalysis

\* one call of analyze_producer_contribution(song_producers, song_year)
Analyze ==
    /\ prod_runs > 0
    /\ prod_calls < MaxCalls
    /\ prod_calls' = prod_calls + 1
    /\ prod_out' = analyze_producer_contribution(song_producers, song_year, set_order)
    /\ prod_first' = IF prod_calls = 0 /\ prod_runs = 1 THEN prod_out' ELSE prod_first
    /\ UNCHANGED <<besideProd, set_order, prod_runs, song_producers,
                   song_year>>

\* the same song is enriched again by a later process
NewProdRun ==
    /\ prod_runs > 0
    /\ prod_calls > 0
    /\ prod_runs < MaxRuns
    /\ prod_runs' = prod_runs + 1
    /\ prod_calls' = 0
    /\ set_order' \in SetOrders
    /\ UNCHANGED <<besideProd, song_producers, song_year, prod_first,
                   prod_out>>

NextProd == Analyze \/ NewProdRun

SpecProd == InitProd /\ [][NextProd]_vars

\* ------------------------------------------------- processing manager
\* The manager on its own: what the classification of a subject comes to (skipped, a profile,
\* no profile, an exception) and what the storage and the disk do are inputs.
MaxArtists == 21
batch_size == 20
checkpoint_every == 10

Min(a, b) == IF a < b THEN a ELSE b

\* len(batch) for batch = artists[i:i + batch_size]
BatchLen == Min(batch_size, total_artists - batch_start)

\* GenreProcessingManager(); process_year_songs(year) has collected the year's artists
InitMgr ==
    /\ EngineInit
    /\ spotify_available
    /\ VoteIdle
    /\ SubIdle
    /\ ProdIdle
    /\ SaveIdle
    /\ CacheIdle
    /\ QueryIdle
    /\ running = TRUE
    /\ stats = NoStats
    /\ checkpoint_file = NoCheckpoint
    /\ m_pc = "year_loop"
    /\ total_artists = MaxArtists
    /\ batch_start = 0
    /\ batch_i = 0
    /\ m_before = NoStats
    /\ m_last = None
    /\ last_write = None
    /\ signal_pc = None

\* SIGINT or SIGTERM is delivered
_signal_handler ==
    /\ m_pc \notin {"idle", "exit"}
    /\ running' = FALSE
    /\ signal_pc' = IF signal_pc = None THEN m_pc ELSE signal_pc
    /\ UNCHANGED <<besideMgr, stats, checkpoint_file, m_pc,
                   total_artists, batch_start, batch_i, m_before, m_last, last_write>>

\* `if not self.running: break`
ShouldStopNever == FALSE

ShouldStop == ~running

\* for i in range(0, len(artists), batch_size): the next batch, or the end of the run
YearLoop ==
    /\ m_pc = "year_loop"
    /\ IF batch_start >= total_artists \/ ShouldStop
       THEN m_pc' = "final" /\ UNCHANGED <<stats, batch_i>>
       ELSE /\ m_pc' = "artist_loop"
            /\ stats' = [stats EXCEPT !.total_processed = BatchLen]
            /\ batch_i' = 0
    /\ UNCHANGED <<besideMgr, running, checkpoint_file,
                   total_artists, batch_start, m_before, m_last, last_write, signal_pc>>

\* for i, artist in enumerate(artists): the next subject is started, or the batch returns
ArtistLoop ==
    /\ m_pc = "artist_loop"
    /\ IF batch_i >= BatchLen \/ ShouldStop
       THEN /\ m_pc' = "year_loop"
            /\ batch_start' = batch_start + batch_size
            /\ UNCHANGED m_before
       ELSE /\ m_pc' = "in_flight"
            /\ m_before' = stats
            /\ UNCHANGED batch_start
    /\ UNCHANGED <<besideMgr, running, stats, checkpoint_file,
                   total_artists, batch_i, m_last, last_write, signal_pc>>

\* _get_existing_classification and classify_artist for the subject in hand
ClassifySubject ==
    /\ m_pc = "in_flight"
    /\ \/ \* already classified with high confidence: `continue`
          /\ stats' = [stats EXCEPT !.skipped = @ + 1]
          /\ m_last' = "skipped"
          /\ batch_i' = batch_i + 1
          /\ m_pc' = "artist_loop"
       \/ \* a profile with a primary genre
          /\ m_pc' = "save"
          /\ UNCHANGED <<stats, m_last, batch_i>>
       \/ \* no profile
          /\ stats' = [stats EXCEPT !.failed = @ + 1]
          /\ m_last' = "unclassified"
          /\ m_pc' = "checkpoint"
          /\ UNCHANGED batch_i
       \/ \* an exception reaches the loop's handler
          /\ stats' = [stats EXCEPT !.failed = @ + 1]
          /\ m_last' = "raised"
          /\ batch_i' = batch_i + 1
          /\ m_pc' = "artist_loop"
    /\ UNCHANGED <<besideMgr, running, checkpoint_file,
                   total_artists, batch_start, m_before, last_write, signal_pc>>

\* save_artist_classification and save_artist_subgenres: both log what the storage raises
SaveSubject ==
    /\ m_pc = "save"
    /\ m_last' \in {"saved", "rejected"}
    /\ stats' = [stats EXCEPT !.successful = @ + 1]
    /\ m_pc' = "checkpoint"
    /\ UNCHANGED <<besideMgr, running, checkpoint_file,
                   total_artists, batch_start, batch_i, m_before, signal_pc, last_write>>

checkpoint_data ==
    [processed_artists |-> batch_i + 1, total_artists |-> BatchLen,
     successful |-> stats.successful, failed |-> stats.failed, skipped |-> stats.skipped]

\* open(checkpoint_file, 'w') truncated the file and json.dump did not finish
Truncated == [truncated |-> TRUE]

\* save_checkpoint(data): written, or open() failed, or the dump failed; nothing is raised
save_checkpoint(data) ==
    \/ checkpoint_file' = data /\ last_write' = "written"
    \/ UNCHANGED checkpoint_file /\ last_write' = "failed"
    \/ checkpoint_file' = Truncated /\ last_write' = "failed"

\* `if (i + 1) % 10 == 0: save_checkpoint(...)`, then the rate-limiting sleep
Checkpoint ==
    /\ m_pc = "checkpoint"
    /\ IF (batch_i + 1) % checkpoint_every = 0
       THEN save_checkpoint(checkpoint_data)
       ELSE UNCHANGED <<checkpoint_file, last_write>>
    /\ batch_i' = batch_i + 1
    /\ m_pc' = "artist_loop"
    /\ UNCHANGED <<besideMgr, running, stats, total_artists,
                   batch_start, m_before, m_last, signal_pc>>

\* clear_checkpoint(): unlink if the file exists
clear_checkpoint == checkpoint_file' = NoCheckpoint

\* print_final_statistics(), which ends with clear_checkpoint()
print_final_statistics ==
    /\ m_pc = "final"
    /\ clear_checkpoint
    /\ m_pc' = "exit"
    /\ UNCHANGED <<besideMgr, running, stats, total_artists,
                   batch_start, batch_i, m_before, m_last, last_write, signal_pc>>

NextMgr ==
    \/ _signal_handler
    \/ YearLoop
    \/ ArtistLoop
    \/ ClassifySubject
    \/ SaveSubject
    \/ Checkpoint
    \/ print_final_statistics

SpecMgr == InitMgr /\ [][NextMgr]_vars

\* ---------------------------------------------------------- persistence
\* Genres.genre_name of the rows of genres: a genre is created with its first song row
GenresTable(genre_rows) == {r.genre_name : r \in genre_rows}

\* the terms of the list that the names of this model can meet
genre_level_terms == {T_soul, T_rap, G_rnb, G_hiphop, G_country, G_folk, G_rock, G_pop, G_jazz,
                      G_latin, G_electronic, G_alternative, G_other}

\* the classifications kept as detailed genres, names in lower case
DetailedGenres(profile, genre_rows) ==
    LET primary_genre_names == {Lower(g) : g \in GenresTable(genre_rows)} \cup genre_level_terms
        lowered == [i \in DOMAIN profile.classifications |->
                       [name |-> Lower(profile.classifications[i].name),
                        confidence |-> profile.classifications[i].confidence,
                        source |-> profile.classifications[i].source]]
    IN SelectSeq(lowered, LAMBDA d : d.name # profile.primary_genre
                                     /\ d.name \notin primary_genre_names)

\* seen_names: one entry per name in order of first appearance, holding the first of the
\* details of highest confidence
SeenNames(details) ==
    LET firsts == {i \in DOMAIN details : \A j \in 1..(i - 1) : details[j].name # details[i].name}
        best(i) == SetMin({j \in DOMAIN details :
                              /\ details[j].name = details[i].name
                              /\ \A k \in DOMAIN details :
                                     details[k].name = details[i].name
                                         => details[k].confidence <= details[j].confidence})
        nth(k) == CHOOSE i \in firsts : Cardinality({j \in firsts : j < i}) = k - 1
    IN [k \in 1..Cardinality(firsts) |-> details[best(nth(k))]]

MaxSubgenres == 3

\* sorted(seen_names.values(), key=confidence, reverse=True)[:3]; the sort is stable
TopSubgenresOf(seen) ==
    LET before(i) == Cardinality({j \in DOMAIN seen :
                        \/ seen[j].confidence > seen[i].confidence
                        \/ seen[j].confidence = seen[i].confidence /\ j < i})
    IN [k \in 1..Min(MaxSubgenres, Len(seen)) |-> seen[CHOOSE i \in DOMAIN seen : before(i) = k - 1]]

\* save_artist_subgenres(artist, profile, year): the rows it adds
SavedSubgenreRows(artist_name, profile, yr, genre_rows, subgenre_rows) ==
    LET songs == SongsOf(artist_name, yr)
        parent == IF profile.primary_genre \in GenresTable(genre_rows)
                  THEN profile.primary_genre ELSE NoName
        top_subgenres == TopSubgenresOf(SeenNames(DetailedGenres(profile, genre_rows)))
    IN {[song_id |-> s, subgenre_name |-> top_subgenres[rank].name, parent_genre |-> parent,
         confidence_score |-> top_subgenres[rank].confidence,
         source |-> top_subgenres[rank].source, rank |-> rank] :
            <<s, rank>> \in {x \in songs \X DOMAIN top_subgenres :
                               ~\E r \in subgenre_rows :
                                    /\ r.song_id = x[1]
                                    /\ r.subgenre_name = top_subgenres[x[2]].name
                                    /\ r.parent_genre = parent}}

SaveSubjects == {N_A, N_B}
SC_dance_pop == [name |-> T_dance_pop, confidence |-> 7, source |-> "spotify"]
SC_rap_rock == [name |-> T_rap_rock, confidence |-> 8, source |-> "chartmetric"]
SC_xq == [name |-> T_xq, confidence |-> 8, source |-> "chartmetric"]
SC_soul == [name |-> T_soul, confidence |-> 5, source |-> "lastfm"]
SC_Pop == [name |-> T_Pop, confidence |-> 10, source |-> "lastfm"]
SC_dance_pop_lastfm == [name |-> T_dance_pop, confidence |-> 9, source |-> "lastfm"]
\* profile.classifications: nothing, one tag, a tag two sources agree on, tags of different
\* genres, genre-level tags among detailed ones
SaveLists ==
    { <<>>, <<SC_dance_pop>>, <<SC_rap_rock>>, <<SC_dance_pop, SC_dance_pop_lastfm>>,
      <<SC_dance_pop, SC_Pop>>, <<SC_rap_rock, SC_dance_pop_lastfm>>,
      <<SC_dance_pop, SC_xq, SC_soul, SC_rap_rock>> }
\* the profiles classify_artist can hand to the two saves
SaveProfiles == {_apply_ari_reasoning_engine(a, cls, {}) : a \in SaveSubjects, cls \in SaveLists}
MaxSaves == 3

\* a batch process with both tables empty
InitSave ==
    /\ EngineInit
    /\ spotify_available
    /\ VoteIdle
    /\ SubIdle
    /\ ProdIdle
    /\ MgrIdle
    /\ SaveIdle
    /\ CacheIdle
    /\ QueryIdle

\* process_artists_batch saves a profile: save_artist_classification, then
\* save_artist_subgenres; each commits on its own and logs what the storage raises
SaveProfile ==
    /\ nsaves < MaxSaves
    /\ \E profile \in SaveProfiles, outcome \in {"stored", "genres_only", "subgenres_only"} :
         LET genre_rows == IF outcome = "subgenres_only" THEN song_genres
                           ELSE song_genres \cup SavedRows(profile.artist_name, profile, year)
         IN /\ song_genres' = genre_rows
            /\ song_subgenres' =
                   IF outcome = "genres_only" THEN song_subgenres
                   ELSE song_subgenres
                        \cup SavedSubgenreRows(profile.artist_name, profile, year, genre_rows,
                                               song_subgenres)
            /\ save_repeat' = /\ last_save # NoSave
                              /\ last_save.outcome = "stored"
                              /\ last_save.profile = profile
            /\ last_save' = [profile |-> profile, outcome |-> outcome]
    /\ rows_before' = [genres |-> song_genres, subgenres |-> song_subgenres]
    /\ nsaves' = nsaves + 1
    /\ UNCHANGED besideSave

NextSave == SaveProfile

SpecSave == InitSave /\ [][NextSave]_vars

\* -------------------------------------------------------- response cache
S_spotify == <<"s", "p", "o", "t", "i", "f", "y">>
S_lastfm == <<"l", "a", "s", "t", "f", "m">>

\* cache_key = f"{source}:{query.lower()}"
ApiCacheKey(source, query) == source \o <<":">> \o Lower(query)

\* the key under which the response a source gave for a subject's primary artist is cached
ApiKeys == [s \in {S_spotify, S_lastfm}, a \in Subjects |->
               ApiCacheKey(s, _extract_primary_artist(a))]

\* _get_cached_response(source, query): the response, or None
Missing == [cached |-> FALSE, response |-> <<>>]

_get_cached_response(source, query) ==
    IF ApiCacheKey(source, query) \in DOMAIN api_cache
    THEN [cached |-> TRUE, response |-> api_cache[ApiCacheKey(source, query)]]
    ELSE Missing

flush_every == 10

\* _cache_response(source, query, response): the file is rewritten when the number of
\* entries is a multiple of ten
_cache_response(source, query, response) ==
    LET key == ApiCacheKey(source, query)
        cache == [k \in DOMAIN api_cache \cup {key} |->
                     IF k = key THEN response ELSE api_cache[k]]
    IN /\ api_cache' = cache
       /\ api_cache_file' = IF Cardinality(DOMAIN cache) % flush_every = 0
                            THEN cache ELSE api_cache_file

\* entries a previous process left in api_cache.json
F_query(d) == <<"f", d>>
FillerCache == [k \in {ApiCacheKey(S_spotify, F_query(d)) :
                          d \in {"1", "2", "3", "4", "5", "6", "7", "8", "9"}} |-> <<>>]

HelperQueries == {N_A}

RECURSIVE NamesOf(_)
NamesOf(top) == IF top = <<>> THEN <<>> ELSE <<Head(top).name>> \o NamesOf(Tail(top))

\* GenreClassificationSystem(): the cache file is loaded; a batch is about to run
InitCache ==
    /\ EngineInit
    /\ VoteIdle
    /\ SubIdle
    /\ ProdIdle
    /\ MgrIdle
    /\ SaveIdle
    /\ QueryIdle
    /\ api_cache_file \in {<<>>, FillerCache}
    /\ api_cache = api_cache_file
    /\ helper_call = None

\* _get_spotify_artist_genres(artist_name), called between two subjects
_get_spotify_artist_genres ==
    /\ pc = "loop"
    /\ \E q \in HelperQueries :
         IF ~spotify_available
         THEN helper_call' = "unavailable" /\ UNCHANGED <<api_cache, api_cache_file>>
         ELSE IF _get_cached_response(S_spotify, q) # Missing
         THEN helper_call' = "cached" /\ UNCHANGED <<api_cache, api_cache_file>>
         ELSE \E ans \in SpotifyAnswers :
                /\ helper_call' = "called"
                /\ IF ans.kind = "data"
                   THEN _cache_response(S_spotify, q, ans.genres)
                   ELSE UNCHANGED <<api_cache, api_cache_file>>
    /\ UNCHANGED besideCache

\* _get_lastfm_artist_genres(artist_name), called between two subjects
_get_lastfm_artist_genres ==
    /\ pc = "loop"
    /\ \E q \in HelperQueries :
         IF ~lastfm_available
         THEN helper_call' = "unavailable" /\ UNCHANGED <<api_cache, api_cache_file>>
         ELSE IF _get_cached_response(S_lastfm, q) # Missing
         THEN helper_call' = "cached" /\ UNCHANGED <<api_cache, api_cache_file>>
         ELSE \E ans \in LastfmAnswers :
                /\ helper_call' = "called"
                /\ IF ans.kind = "data"
                   THEN _cache_response(S_lastfm, q, NamesOf(ans.genres))
                   ELSE UNCHANGED <<api_cache, api_cache_file>>
    /\ UNCHANGED besideCache

\* one batch process in which the two helpers are called as well
NextCache ==
    \/ BatchCheck
    \/ Continue
    \/ ClassifyEntry
    \/ CallSpotify
    \/ CallChartmetric
    \/ CallLastfm
    \/ CallGeniusAndReason
    \/ AfterClassify
    \/ _get_spotify_artist_genres
    \/ _get_lastfm_artist_genres

SpecCache == InitCache /\ [][NextCache]_vars

\* ------------------------------------------------------- search queries
Digits10 == {"0", "1", "2", "3", "4", "5", "6", "7", "8", "9"}

\* re.IGNORECASE: characters are compared after case folding
Fold(c) == LowerChar(c)

\* \s and \w
IsWs(c) == c \in {" ", "\t", "\n"}
IsWordChar(c) == Fold(c) \in SeqRange(Lower26) \cup Digits10 \cup {"_"}

\* the keyword k, given in lower case, stands in s at position i
At(s, i, k) ==
    /\ i >= 1
    /\ i + Len(k) - 1 <= Len(s)
    /\ \A j \in DOMAIN k : Fold(s[i + j - 1]) = k[j]

\* the first position at or after i that holds c, 0 if there is none
NextChar(s, i, c) ==
    IF \E j \in i..Len(s) : s[j] = c THEN SetMin({j \in i..Len(s) : s[j] = c}) ELSE 0

\* the first position at or after i that holds no whitespace (Len(s) + 1 if there is none)
SkipWs(s, i) == SetMin({j \in i..(Len(s) + 1) : j = Len(s) + 1 \/ ~IsWs(s[j])})

\* the first position of the run of whitespace that ends just before q
WsRunStart(s, q) == SetMin({p \in 1..q : \A j \in p..(q - 1) : IsWs(s[j])})

\* self.suffixes_to_remove, in order.  Every pattern is \s*, an opening "(" or "-", a body,
\* and a tail: .*?\) after "(", .*$ after "-" (which lets \s* follow the dash).  The body is
\*   key_ws     key, an optional dot where the pattern has \.?, then \s+
\*   key        key
\*   two_words  key \s+ key2
\*   quoted     key \s+ ".*?"
\*   contains   .*? key
suffixes_to_remove ==
    << [open |-> "(", kind |-> "key_ws", key |-> <<"w", "i", "t", "h">>, key2 |-> <<>>, dot |-> FALSE],
       [open |-> "(", kind |-> "key_ws", key |-> <<"f", "e", "a", "t">>, key2 |-> <<>>, dot |-> TRUE],
       [open |-> "(", kind |-> "key_ws", key |-> <<"f", "e", "a", "t", "u", "r", "i", "n", "g">>, key2 |-> <<>>, dot |-> FALSE],
       [open |-> "(", kind |-> "key_ws", key |-> <<"f", "t">>, key2 |-> <<>>, dot |-> TRUE],
       [open |-> "(", kind |-> "key_ws", key |-> <<"f", "/">>, key2 |-> <<>>, dot |-> FALSE],
       [open |-> "(", kind |-> "key_ws", key |-> <<"x">>, key2 |-> <<>>, dot |-> FALSE],
       [open |-> "-", kind |-> "key", key |-> <<"r", "e", "m", "a", "s", "t", "e", "r", "e", "d">>, key2 |-> <<>>, dot |-> FALSE],
       [open |-> "(", kind |-> "key", key |-> <<"r", "e", "m", "a", "s", "t", "e", "r", "e", "d">>, key2 |-> <<>>, dot |-> FALSE],
       [open |-> "-", kind |-> "contains", key |-> <<"r", "e", "m", "a", "s", "t", "e", "r">>, key2 |-> <<>>, dot |-> FALSE],
       [open |-> "-", kind |-> "contains", key |-> <<"v", "e", "r", "s", "i", "o", "n">>, key2 |-> <<>>, dot |-> FALSE],
       [open |-> "(", kind |-> "contains", key |-> <<"v", "e", "r", "s", "i", "o", "n">>, key2 |-> <<>>, dot |-> FALSE],
       [open |-> "-", kind |-> "quoted", key |-> <<"f", "r", "o", "m">>, key2 |-> <<>>, dot |-> FALSE],
       [open |-> "(", kind |-> "quoted", key |-> <<"f", "r", "o", "m">>, key2 |-> <<>>, dot |-> FALSE],
       [open |-> "-", kind |-> "two_words", key |-> <<"f", "e", "a", "t", "u", "r", "e", "d">>, key2 |-> <<"i", "n">>, dot |-> FALSE],
       [open |-> "(", kind |-> "two_words", key |-> <<"f", "e", "a", "t", "u", "r", "e", "d">>, key2 |-> <<"i", "n">>, dot |-> FALSE],
       [open |-> "-", kind |-> "two_words", key |-> <<"f", "r", "o", "m">>, key2 |-> <<"t", "h", "e">>, dot |-> FALSE],
       [open |-> "(", kind |-> "two_words", key |-> <<"f", "r", "o", "m">>, key2 |-> <<"t", "h", "e">>, dot |-> FALSE],
       [open |-> "-", kind |-> "contains", key |-> <<"r", "a", "d", "i", "o">>, key2 |-> <<>>, dot |-> FALSE],
       [open |-> "(", kind |-> "contains", key |-> <<"r", "a", "d", "i", "o">>, key2 |-> <<>>, dot |-> FALSE],
       [open |-> "-", kind |-> "contains", key |-> <<"m", "i", "x">>, key2 |-> <<>>, dot |-> FALSE],
       [open |-> "(", kind |-> "contains", key |-> <<"m", "i", "x">>, key2 |-> <<>>, dot |-> FALSE] >>

\* the last position of the body of pattern pat when it starts at a (for "contains": at or
\* after a), 0 if it does not match there
BodyEnd(s, a, pat) ==
    LET b == a + Len(pat.key)
        afterDot == IF pat.dot /\ b <= Len(s) /\ s[b] = "." THEN b + 1 ELSE b
        c == SkipWs(s, b)
        hits == {p \in a..Len(s) : At(s, p, pat.key)}
    IN CASE pat.kind = "key_ws" ->
                IF At(s, a, pat.key) /\ afterDot <= Len(s) /\ IsWs(s[afterDot])
                THEN afterDot ELSE 0
         [] pat.kind = "key" ->
                IF At(s, a, pat.key) THEN b - 1 ELSE 0
         [] pat.kind = "two_words" ->
                IF At(s, a, pat.key) /\ c > b /\ At(s, c, pat.key2)
                THEN c + Len(pat.key2) - 1 ELSE 0
         [] pat.kind = "quoted" ->
                IF At(s, a, pat.key) /\ c > b /\ c <= Len(s) /\ s[c] = "\""
                THEN NextChar(s, c + 1, "\"") ELSE 0
         [] pat.kind = "contains" ->
                IF hits = {} THEN 0 ELSE SetMin(hits) + Len(pat.key) - 1

\* the last position of the match of pat whose opening character stands at q, 0 if none
MatchEnd(s, q, pat) ==
    IF s[q] # pat.open THEN 0
    ELSE IF pat.open = "("
    THEN LET e == BodyEnd(s, q + 1, pat)
         IN IF e = 0 THEN 0 ELSE NextChar(s, e + 1, ")")
    ELSE IF BodyEnd(s, IF pat.kind = "contains" THEN q + 1 ELSE SkipWs(s, q + 1), pat) = 0
         THEN 0 ELSE Len(s)

\* re.sub(pattern, '', s, flags=re.IGNORECASE): every match, leftmost first, is removed
RECURSIVE RemovePattern(_, _)
RemovePattern(s, pat) ==
    LET opens == {q \in DOMAIN s : MatchEnd(s, q, pat) # 0}
    IN IF opens = {} THEN s
       ELSE SubSeq(s, 1, WsRunStart(s, SetMin(opens)) - 1)
            \o RemovePattern(SubSeq(s, MatchEnd(s, SetMin(opens), pat) + 1, Len(s)), pat)

RECURSIVE RemoveSuffixes(_, _)
RemoveSuffixes(s, i) ==
    IF i > Len(suffixes_to_remove) THEN s
    ELSE RemoveSuffixes(RemovePattern(s, suffixes_to_remove[i]), i + 1)

\* the censored words: \b first \*+ last \b is replaced by word
censored_words ==
    << [first |-> "b", last |-> <<"h">>, word |-> <<"b", "i", "t", "c", "h">>],
       [first |-> "a", last |-> <<>>, word |-> <<"a", "s", "s">>],
       [first |-> "s", last |-> <<"t">>, word |-> <<"s", "h", "i", "t">>],
       [first |-> "f", last |-> <<"k">>, word |-> <<"f", "u", "c", "k">>],
       [first |-> "n", last |-> <<"a">>, word |-> <<"n", "i", "g", "g", "a">>] >>

\* the last position of the match of the censored word cw that starts at i, 0 if none
CensoredEnd(s, i, cw) ==
    LET e == SetMin({j \in (i + 1)..(Len(s) + 1) : j = Len(s) + 1 \/ s[j] # "*"})
    IN IF /\ Fold(s[i]) = cw.first
          /\ (i = 1 \/ ~IsWordChar(s[i - 1]))
          /\ e > i + 1
       THEN IF cw.last = <<>>
            THEN IF e <= Len(s) /\ IsWordChar(s[e]) THEN e - 1 ELSE 0
            ELSE IF e <= Len(s) /\ Fold(s[e]) = cw.last[1]
                    /\ (e = Len(s) \/ ~IsWordChar(s[e + 1]))
                 THEN e ELSE 0
       ELSE 0

RECURSIVE Uncensor(_, _, _)
Uncensor(s, i, cw) ==
    IF i > Len(s) THEN <<>>
    ELSE IF CensoredEnd(s, i, cw) # 0
    THEN cw.word \o Uncensor(s, CensoredEnd(s, i, cw) + 1, cw)
    ELSE <<s[i]>> \o Uncensor(s, i + 1, cw)

RECURSIVE UncensorAll(_, _)
UncensorAll(s, i) ==
    IF i > Len(censored_words) THEN s
    ELSE UncensorAll(Uncensor(s, 1, censored_words[i]), i + 1)

\* re.sub(r'\s+', ' ', s)
RECURSIVE CollapseWs(_)
CollapseWs(s) ==
    IF s = <<>> THEN <<>>
    ELSE IF IsWs(Head(s)) THEN <<" ">> \o CollapseWs(SubSeq(s, SkipWs(s, 1), Len(s)))
    ELSE <<Head(s)>> \o CollapseWs(Tail(s))

\* str.strip()
StripWs(s) ==
    IF \A i \in DOMAIN s : IsWs(s[i]) THEN <<>>
    ELSE SubSeq(s, SkipWs(s, 1), CHOOSE e \in DOMAIN s : ~IsWs(s[e]) /\ \A j \in (e + 1)..Len(s) : IsWs(s[j]))

clean_title_for_search(title) == StripWs(CollapseWs(UncensorAll(RemoveSuffixes(title, 1), 1)))

\* s.split(c)[0]
SplitFirst(s, c) == IF NextChar(s, 1, c) = 0 THEN s ELSE SubSeq(s, 1, NextChar(s, 1, c) - 1)

\* the alternatives of \s+(feat\.?|featuring|ft\.?|with|f/)\s+.*$
featuring_clauses ==
    { [kind |-> "key_ws", key |-> <<"f", "e", "a", "t">>, key2 |-> <<>>, dot |-> TRUE],
      [kind |-> "key_ws", key |-> <<"f", "e", "a", "t", "u", "r", "i", "n", "g">>, key2 |-> <<>>,
       dot |-> FALSE],
      [kind |-> "key_ws", key |-> <<"f", "t">>, key2 |-> <<>>, dot |-> TRUE],
      [kind |-> "key_ws", key |-> <<"w", "i", "t", "h">>, key2 |-> <<>>, dot |-> FALSE],
      [kind |-> "key_ws", key |-> <<"f", "/">>, key2 |-> <<>>, dot |-> FALSE] }

\* re.sub of that pattern by '': the name is cut where the first featuring clause begins
RemoveFeaturing(s) ==
    LET starts == {p \in DOMAIN s :
                      /\ IsWs(s[p])
                      /\ \E pat \in featuring_clauses : BodyEnd(s, SkipWs(s, p), pat) # 0}
    IN IF starts = {} THEN s ELSE SubSeq(s, 1, SetMin(starts) - 1)

\* re.sub(r"['\-\.]", '', s)
RemovePunct(s) == SelectSeq(s, LAMBDA c : c \notin {"'", "-", "."})

\* re.sub(r'[^\w\s]', ' ', s)
BlankSpecial(s) == [i \in DOMAIN s |-> IF IsWordChar(s[i]) \/ IsWs(s[i]) THEN s[i] ELSE " "]

Join(a, b) == a \o <<" ">> \o b

\* "Remove duplicates while preserving order"
RECURSIVE Unique(_)
Unique(qs) ==
    IF qs = <<>> THEN <<>>
    ELSE LET rest == Unique(SubSeq(qs, 1, Len(qs) - 1))
         IN IF qs[Len(qs)] \in SeqRange(rest) THEN rest ELSE Append(rest, qs[Len(qs)])

generate_search_queries(title, artist_name) ==
    LET clean_title == clean_title_for_search(title)
        main_artist == StripWs(RemoveFeaturing(StripWs(SplitFirst(SplitFirst(artist_name, ","), "&"))))
        main_artist_no_punct == StripWs(RemovePunct(main_artist))
        simplified_title == CollapseWs(StripWs(BlankSpecial(clean_title)))
    IN Unique(<<Join(clean_title, main_artist)>>
              \o (IF artist_name # main_artist THEN <<Join(clean_title, artist_name)>> ELSE <<>>)
              \o <<Join(main_artist, clean_title)>>
              \o <<clean_title>>
              \o (IF title # clean_title THEN <<Join(title, main_artist)>> ELSE <<>>)
              \o (IF simplified_title # clean_title
                  THEN <<Join(simplified_title, main_artist)>> ELSE <<>>)
              \o (IF main_artist_no_punct # main_artist
                  THEN <<Join(clean_title, main_artist_no_punct),
                         Join(main_artist_no_punct, clean_title)>>
                  ELSE <<>>))

QT_Sunflower_SpiderVerse ==
    <<"S", "u", "n", "f", "l", "o", "w", "e", "r", " ", "(", "S", "p", "i", "d", "e", "r", "-",
      "M", "a", "n", ":", " ", "I", "n", "t", "o", " ", "t", "h", "e", " ", "S", "p", "i", "d",
      "e", "r", "-", "V", "e", "r", "s", "e", ")">>
QT_Sunflower == <<"S", "u", "n", "f", "l", "o", "w", "e", "r">>
QT_Sunflower_feat ==
    <<"S", "u", "n", "f", "l", "o", "w", "e", "r", " ", "(", "f", "e", "a", "t", ".", " ", "S",
      "w", "a", "e", " ", "L", "e", "e", ")">>
QT_Sunflower_with ==
    <<"S", "u", "n", "f", "l", "o", "w", "e", "r", " ", "(", "w", "i", "t", "h", " ", "S", "w",
      "a", "e", " ", "L", "e", "e", ")">>
QT_Sunflower_radio ==
    <<"S", "u", "n", "f", "l", "o", "w", "e", "r", " ", "-", " ", "R", "a", "d", "i", "o", " ",
      "E", "d", "i", "t">>
QT_Sunflower_from_the ==
    <<"S", "u", "n", "f", "l", "o", "w", "e", "r", " ", "(", "F", "r", "o", "m", " ", "t", "h",
      "e", " ", "M", "o", "t", "i", "o", "n", " ", "P", "i", "c", "t", "u", "r", "e", ")">>
QT_Sunflower_remaster ==
    <<"S", "u", "n", "f", "l", "o", "w", "e", "r", " ", "-", " ", "2", "0", "2", "0", " ", "R",
      "e", "m", "a", "s", "t", "e", "r">>
QT_Sunflower_version ==
    <<"S", "u", "n", "f", "l", "o", "w", "e", "r", " ", "(", "A", "l", "b", "u", "m", " ", "V",
      "e", "r", "s", "i", "o", "n", ")">>
QT_Sunflower_from_quoted ==
    <<"S", "u", "n", "f", "l", "o", "w", "e", "r", " ", "(", "F", "r", "o", "m", " ", "\"",
      "S", "p", "i", "d", "e", "r", "-", "M", "a", "n", "\"", ")">>
QT_censored == <<"B", "*", "*", "*", "h", " ", "B", "e", "t", "t", "e", "r">>
QT_Sunflower_remix ==
    <<"S", "u", "n", "f", "l", "o", "w", "e", "r", " ", "(", "R", "e", "m", "i", "x", ")">>
QT_Anti_Hero_radio ==
    <<"A", "n", "t", "i", "-", "H", "e", "r", "o", " ", "-", " ", "R", "a", "d", "i", "o", " ",
      "E", "d", "i", "t">>
QA_Post_Malone_Swae_Lee ==
    <<"P", "o", "s", "t", " ", "M", "a", "l", "o", "n", "e", " ", "&", " ", "S", "w", "a", "e",
      " ", "L", "e", "e">>
QA_Post_Malone == <<"P", "o", "s", "t", " ", "M", "a", "l", "o", "n", "e">>
QA_Post_Malone_feat ==
    <<"P", "o", "s", "t", " ", "M", "a", "l", "o", "n", "e", " ", "f", "e", "a", "t", ".", " ",
      "S", "w", "a", "e", " ", "L", "e", "e">>
QA_Camron == <<"C", "a", "m", "'", "r", "o", "n">>
QA_Post_Malone_comma ==
    <<"P", "o", "s", "t", " ", "M", "a", "l", "o", "n", "e", ",", " ", "S", "w", "a", "e", " ",
      "L", "e", "e">>

QueryTitles == {QT_Sunflower_SpiderVerse, QT_Sunflower, QT_Sunflower_feat, QT_Sunflower_with,
                QT_Sunflower_radio, QT_Sunflower_from_the, QT_Sunflower_remaster, QT_Sunflower_version,
                QT_Sunflower_from_quoted, QT_censored, QT_Sunflower_remix, QT_Anti_Hero_radio}
QueryArtists == {QA_Post_Malone_Swae_Lee, QA_Post_Malone, QA_Post_Malone_feat,
                 QA_Camron, QA_Post_Malone_comma}

\* a song of the catalogue is about to be looked up
InitQuery ==
    /\ EngineInit
    /\ spotify_available
    /\ VoteIdle
    /\ SubIdle
    /\ ProdIdle
    /\ MgrIdle
    /\ SaveIdle
    /\ CacheIdle
    /\ q_title \in QueryTitles
    /\ q_artist \in QueryArtists
    /\ q_queries = <<>>
    /\ q_pc = "ready"
    /\ MatchIdle
    /\ SearchIdle

\* generate_search_queries(title, artist)
GenerateQueries ==
    /\ q_pc = "ready"
    /\ q_queries' = generate_search_queries(q_title, q_artist)
    /\ q_pc' = "done"
    /\ UNCHANGED <<besideQuery, q_title, q_artist, matchVars, searchVars>>

NextQuery == GenerateQueries

SpecQuery == InitQuery /\ [][NextQuery]_vars

\* ------------------------------------------------------- match decision
\* str.lower()
ToLower(s) == [i \in DOMAIN s |-> Fold(s[i])]

Max2(a, b) == IF a >= b THEN a ELSE b

\* one row of the table of the lengths of the longest common subsequences of the prefixes
\* of two strings: the row of c after the row prev, acc being its first entries
RECURSIVE LcsRow(_, _, _, _)
LcsRow(c, s2, prev, acc) ==
    IF Len(acc) = Len(s2) THEN acc
    ELSE LET j == Len(acc) + 1
         IN LcsRow(c, s2, prev,
                   Append(acc, IF c = s2[j]
                               THEN (IF j = 1 THEN 0 ELSE prev[j - 1]) + 1
                               ELSE Max2(prev[j], IF j = 1 THEN 0 ELSE acc[j - 1])))

RECURSIVE LcsRows(_, _, _, _)
LcsRows(s1, s2, i, prev) ==
    IF i > Len(s1) THEN prev ELSE LcsRows(s1, s2, i + 1, LcsRow(s1[i], s2, prev, <<>>))

\* the number of characters the two strings have in common, in order
Matches(s1, s2) ==
    IF s2 = <<>> THEN 0 ELSE LcsRows(s1, s2, 1, [j \in DOMAIN s2 |-> 0])[Len(s2)]

\* int(round(n / d)), halves to the even neighbour
RoundDiv(n, d) ==
    LET q == n \div d
        r == n % d
    IN IF 2 * r < d THEN q
       ELSE IF 2 * r > d THEN q + 1
       ELSE IF q % 2 = 0 THEN q ELSE q + 1

\* fuzz.ratio(s1, s2): 100 for equal strings, 0 when one is empty, else 100 * 2M / T rounded,
\* M the matching characters and T the two lengths together
fuzz_ratio(s1, s2) ==
    IF s1 = s2 THEN 100
    ELSE IF s1 = <<>> \/ s2 = <<>> THEN 0
    ELSE RoundDiv(200 * Matches(s1, s2), Len(s1) + Len(s2))

\* re.sub(r'^\s*(the|a|an)\s+', '', text).strip()
remove_articles(text) ==
    LET a == SkipWs(text, 1)
        words == {w \in {<<"t", "h", "e">>, <<"a">>, <<"a", "n">>} :
                     /\ At(text, a, w)
                     /\ a + Len(w) <= Len(text)
                     /\ IsWs(text[a + Len(w)])}
        w == CHOOSE x \in words : TRUE
    IN IF words = {} THEN StripWs(text)
       ELSE StripWs(SubSeq(text, SkipWs(text, a + Len(w)), Len(text)))

\* re.sub(r'\s*\([^)]*\)', '', text).strip()
remove_all_parentheticals(text) ==
    StripWs(RemovePattern(text, [open |-> "(", kind |-> "contains", key |-> <<>>,
                                 key2 |-> <<>>, dot |-> FALSE]))

\* the positions where "feat." or "ft." stands, followed by whitespace
FeatAt(s, k) ==
    \E w \in {<<"f", "e", "a", "t", ".">>, <<"f", "t", ".">>} :
        At(s, k, w) /\ k + Len(w) <= Len(s) /\ IsWs(s[k + Len(w)])

\* re.sub(r'\s*\(?(feat\.|ft\.)\s+[^)]*\)?', '', text)
RECURSIVE RemoveFeat(_)
RemoveFeat(s) ==
    LET ks == {k \in DOMAIN s : FeatAt(s, k)}
        k == SetMin(ks)
        q == IF k > 1 /\ s[k - 1] = "(" THEN k - 1 ELSE k
        close == NextChar(s, k, ")")
    IN IF ks = {} THEN s
       ELSE SubSeq(s, 1, WsRunStart(s, q) - 1)
            \o (IF close = 0 THEN <<>> ELSE RemoveFeat(SubSeq(s, close + 1, Len(s))))

\* "Extract main artist from original"
MainArtist(artist_name) ==
    StripWs(RemoveFeaturing(StripWs(SplitFirst(SplitFirst(artist_name, ","), "&"))))

\* the gate of the all-parentheses-removed variant, with the threshold taken as 0
GateOpen(artist_sim) == artist_sim >= 0

\* "Only use parenthetical match if artist match is strong"
ParentheticalGate(artist_sim) == artist_sim >= 85

best_title_similarity_of(sims, artist_sim) ==
    LET others == Max2(sims[1], Max2(sims[2], sims[3]))
    IN IF sims[4] > others
       THEN IF ParentheticalGate(artist_sim) THEN sims[4] ELSE others
       ELSE Max2(others, sims[4])

\* the threshold without the adaptation to the title match
FixedThreshold(best) == 70

\* "Use adaptive artist threshold based on title match quality"
artist_threshold_of(best) ==
    IF best = 100 THEN 45 ELSE IF best >= 95 THEN 60 ELSE 70

title_threshold == 70

\* the locals of _is_good_match when fuzzywuzzy is available
Similarities(g_title, g_artist, o_title, o_artist) ==
    LET genius_title_norm == ToLower(clean_title_for_search(g_title))
        original_title_norm == ToLower(clean_title_for_search(o_title))
        genius_artist_norm == ToLower(g_artist)
        main_artist == ToLower(MainArtist(o_artist))
        sims == <<fuzz_ratio(genius_title_norm, original_title_norm),
                  fuzz_ratio(StripWs(RemoveFeat(genius_title_norm)),
                             StripWs(RemoveFeat(original_title_norm))),
                  fuzz_ratio(remove_articles(genius_title_norm),
                             remove_articles(original_title_norm)),
                  fuzz_ratio(remove_all_parentheticals(genius_title_norm),
                             remove_all_parentheticals(original_title_norm))>>
        artist_sim == fuzz_ratio(genius_artist_norm, main_artist)
        best == best_title_similarity_of(sims, artist_sim)
    IN [scored |-> TRUE,
        title_similarity |-> sims[1],
        title_similarity_no_feat |-> sims[2],
        title_similarity_no_article |-> sims[3],
        title_similarity_no_parens |-> sims[4],
        artist_similarity |-> artist_sim,
        best_title_similarity |-> best,
        artist_threshold |-> artist_threshold_of(best),
        contained |-> \/ Contains(main_artist, genius_artist_norm)
                      \/ Contains(genius_artist_norm, main_artist)]

\* "Fallback to simple string matching"
SimpleMatch(g_title, o_title) ==
    \/ Contains(ToLower(g_title), ToLower(o_title))
    \/ Contains(ToLower(o_title), ToLower(g_title))

\* what _is_good_match returns, given its locals
Decision(l) ==
    /\ l.best_title_similarity >= title_threshold
    /\ (l.contained \/ l.artist_similarity >= l.artist_threshold)

MT_Youngn_Holla_Back ==
    <<"Y", "o", "u", "n", "g", "'", "n", " ", "(", "H", "o", "l", "l", "a", " ", "B", "a", "c",
      "k", ")">>
MT_Youngn == <<"Y", "o", "u", "n", "g", "'", "n">>
MT_Holla_Back == <<"H", "o", "l", "l", "a", " ", "B", "a", "c", "k">>
MT_Youngn_typo ==
    <<"Y", "o", "u", "n", "g", "n", " ", "(", "H", "o", "l", "l", "a", " ", "B", "a", "c", "k",
      ")">>
MT_Way_You_Move == <<"W", "a", "y", " ", "Y", "o", "u", " ", "M", "o", "v", "e">>
MT_The_Way_You_Do == <<"T", "h", "e", " ", "W", "a", "y", " ", "Y", "o", "u", " ", "D", "o">>
MT_The_Way_You_Moved ==
    <<"T", "h", "e", " ", "W", "a", "y", " ", "Y", "o", "u", " ", "M", "o", "v", "e", "d">>
MT_Youngn_Holla_Back_feat ==
    <<"Y", "o", "u", "n", "g", "'", "n", " ", "(", "H", "o", "l", "l", "a", " ", "B", "a", "c",
      "k", ")", " ", "f", "e", "a", "t", ".", " ", "T", "a", "m", "i", "a">>
MT_The_Way_You_Move ==
    <<"T", "h", "e", " ", "W", "a", "y", " ", "Y", "o", "u", " ", "M", "o", "v", "e">>
MA_Fabolous == <<"F", "a", "b", "o", "l", "o", "u", "s">>
MA_Fabolous_Nate_Dogg ==
    <<"F", "a", "b", "o", "l", "o", "u", "s", " ", "&", " ", "N", "a", "t", "e", " ", "D", "o",
      "g", "g">>
MA_Fabulous == <<"F", "a", "b", "u", "l", "o", "u", "s">>
MA_Fabolus_Crew == <<"F", "a", "b", "o", "l", "u", "s", " ", "C", "r", "e", "w">>
MA_Fabol_Kid == <<"F", "a", "b", "o", "l", " ", "K", "i", "d">>
MA_Fabo_Records == <<"F", "a", "b", "o", " ", "R", "e", "c", "o", "r", "d", "s">>
MA_Fabulo_Project == <<"F", "a", "b", "u", "l", "o", " ", "P", "r", "o", "j", "e", "c", "t">>
MA_Fa_Records == <<"F", "a", " ", "R", "e", "c", "o", "r", "d", "s">>
MA_FAB_olous == <<"F", ".", "A", ".", "B", ".", "o", "l", "o", "u", "s">>
MA_Wrong_Artist == <<"W", "r", "o", "n", "g", " ", "A", "r", "t", "i", "s", "t">>
MA_Fabolous_feat_Tamia ==
    <<"F", "a", "b", "o", "l", "o", "u", "s", " ", "f", "e", "a", "t", ".", " ", "T", "a", "m",
      "i", "a">>
MA_Right_Artist == <<"R", "i", "g", "h", "t", " ", "A", "r", "t", "i", "s", "t">>

GeniusTitles == {MT_Youngn_Holla_Back,
                 MT_Youngn,
                 MT_Holla_Back,
                 MT_Youngn_typo,
                 MT_Way_You_Move,
                 MT_The_Way_You_Do,
                 MT_The_Way_You_Moved,
                 MT_Youngn_Holla_Back_feat}
OriginalTitles == {MT_Youngn_Holla_Back, MT_The_Way_You_Move}
GeniusArtists == {MA_Fabolous,
                  MA_Fabolous_Nate_Dogg,
                  MA_Fabulous,
                  MA_Fabolus_Crew,
                  MA_Fabol_Kid,
                  MA_Fabo_Records,
                  MA_Fabulo_Project,
                  MA_Fa_Records,
                  MA_FAB_olous,
                  MA_Wrong_Artist}
OriginalArtists == {MA_Fabolous, MA_Fabolous_feat_Tamia, MA_Right_Artist}

\* the similarities of every hit and every song looked up
SimilaritiesTable ==
    [x \in GeniusTitles \X GeniusArtists \X OriginalTitles \X OriginalArtists |->
        Similarities(x[1], x[2], x[3], x[4])]

\* a hit of the search is about to be compared with the song looked up
InitMatch ==
    /\ EngineInit
    /\ spotify_available
    /\ VoteIdle
    /\ SubIdle
    /\ ProdIdle
    /\ MgrIdle
    /\ SaveIdle
    /\ CacheIdle
    /\ q_title = <<>>
    /\ q_artist = <<>>
    /\ q_queries = <<>>
    /\ q_pc = "idle"
    /\ FUZZYWUZZY_AVAILABLE \in BOOLEAN
    /\ genius_title \in GeniusTitles
    /\ genius_artist \in GeniusArtists
    /\ original_title \in OriginalTitles
    /\ original_artist \in OriginalArtists
    /\ match_locals = NoSimilarities
    /\ match_result = FALSE
    /\ match_pc = "ready"
    /\ SearchIdle

\* _is_good_match(genius_title, genius_artist, original_title, original_artist)
_is_good_match ==
    /\ match_pc = "ready"
    /\ IF FUZZYWUZZY_AVAILABLE
       THEN /\ match_locals' = SimilaritiesTable[<<genius_title, genius_artist,
                                                   original_title, original_artist>>]
            /\ match_result' = Decision(match_locals')
       ELSE /\ match_locals' = NoSimilarities
            /\ match_result' = SimpleMatch(genius_title, original_title)
    /\ match_pc' = "done"
    /\ UNCHANGED <<besideQuery, q_title, q_artist, q_queries, q_pc, FUZZYWUZZY_AVAILABLE,
                   genius_title, genius_artist, original_title, original_artist, searchVars>>

NextMatch == _is_good_match

SpecMatch == InitMatch /\ [][NextMatch]_vars

\* ------------------------------------------------------- search
\* what _is_good_match returns for a hit and a song
GoodMatch(g_title, g_artist, o_title, o_artist, fuzzy) ==
    IF fuzzy THEN Decision(SimilaritiesTable[<<g_title, g_artist, o_title, o_artist>>])
    ELSE SimpleMatch(g_title, o_title)

max_retries == 3

\* hits of the search service: hit['result'] with title, primary artist and id
H_near == [title |-> MT_The_Way_You_Do, artist |-> MA_Fabulous, id |-> 1]
H_exact == [title |-> MT_Way_You_Move, artist |-> MA_Fabolous, id |-> 2]
H_other == [title |-> MT_Holla_Back, artist |-> MA_Wrong_Artist, id |-> 3]

\* the responses of the service to a query
HitLists == {<<>>, <<H_other>>, <<H_near, H_exact>>, <<H_exact, H_near>>, <<H_other, H_exact>>}

SearchSongs == OriginalTitles \X {MA_Fabolous, MA_Fabolous_feat_Tamia}

\* len(queries) for every song looked up
NumQueries == [x \in SearchSongs |-> Len(generate_search_queries(x[1], x[2]))]

\* a song is about to be looked up
InitSearch ==
    /\ EngineInit
    /\ spotify_available
    /\ VoteIdle
    /\ SubIdle
    /\ ProdIdle
    /\ MgrIdle
    /\ SaveIdle
    /\ CacheIdle
    /\ q_title = <<>>
    /\ q_artist = <<>>
    /\ q_queries = <<>>
    /\ q_pc = "idle"
    /\ FUZZYWUZZY_AVAILABLE \in BOOLEAN
    /\ genius_title = <<>>
    /\ genius_artist = <<>>
    /\ original_title = <<>>
    /\ original_artist = <<>>
    /\ match_locals = NoSimilarities
    /\ match_result = FALSE
    /\ match_pc = "idle"
    /\ \E x \in SearchSongs : s_song_name = x[1] /\ s_artist_name = x[2]
    /\ s_query = 1
    /\ s_attempt = 0
    /\ s_hits = <<>>
    /\ s_j = 0
    /\ s_seen = {}
    /\ s_result = NoMatchFound
    /\ s_pc = "query"
    /\ NameIdle

searchFrame == <<besideQuery, q_title, q_artist, q_queries, q_pc, matchVars, s_song_name,
                 s_artist_name, nameVars>>

\* "for i, query in enumerate(queries)": the next query, or "No match found"
NextQueryOrFail ==
    IF s_query < NumQueries[<<s_song_name, s_artist_name>>]
    THEN s_query' = s_query + 1 /\ s_attempt' = 0 /\ s_pc' = "query" /\ s_result' = s_result
    ELSE s_query' = s_query /\ s_attempt' = s_attempt /\ s_pc' = "done"
         /\ s_result' = NoMatchFound

\* self.search_song(query, "") raised
SearchRaised ==
    /\ s_pc = "query"
    /\ IF s_attempt = max_retries - 1
       THEN NextQueryOrFail
       ELSE s_attempt' = s_attempt + 1 /\ UNCHANGED <<s_query, s_pc, s_result>>
    /\ UNCHANGED <<searchFrame, s_hits, s_j, s_seen>>

\* it returned without success or without data
SearchFailed ==
    /\ s_pc = "query"
    /\ NextQueryOrFail
    /\ UNCHANGED <<searchFrame, s_hits, s_j, s_seen>>

\* it returned hits
SearchAnswered ==
    /\ s_pc = "query"
    /\ \E hits \in HitLists :
          /\ s_hits' = hits
          /\ s_seen' = s_seen \cup SeqRange(hits)
    /\ s_j' = 1
    /\ s_pc' = "hits"
    /\ UNCHANGED <<searchFrame, s_query, s_attempt, s_result>>

\* "for j, hit in enumerate(hits[:15])": one hit is checked
CheckHit ==
    /\ s_pc = "hits"
    /\ IF s_j > Min(Len(s_hits), 15)
       THEN NextQueryOrFail /\ s_j' = s_j
       ELSE IF GoodMatch(s_hits[s_j].title, s_hits[s_j].artist, s_song_name, s_artist_name,
                         FUZZYWUZZY_AVAILABLE)
       THEN \/ /\ s_result' = [success |-> TRUE, title |-> s_hits[s_j].title,
                               artist |-> s_hits[s_j].artist, id |-> s_hits[s_j].id]
               /\ s_pc' = "done"
               /\ UNCHANGED <<s_query, s_attempt, s_j>>
            \/ /\ s_j' = s_j + 1           \* get_song_details returned None
               /\ UNCHANGED <<s_query, s_attempt, s_pc, s_result>>
       ELSE s_j' = s_j + 1 /\ UNCHANGED <<s_query, s_attempt, s_pc, s_result>>
    /\ UNCHANGED <<searchFrame, s_hits, s_seen>>

NextSearch == SearchRaised \/ SearchFailed \/ SearchAnswered \/ CheckHit

SpecSearch == InitSearch /\ [][NextSearch]_vars

\* ------------------------------------------------- one subject, two extractions
SN_Outkast == <<"O", "u", "t", "k", "a", "s", "t">>
SN_Drake_ft ==
    <<"D", "r", "a", "k", "e", " ", "f", "t", ".", " ", "L", "i", "l", " ", "W", "a", "y", "n",
      "e">>
SN_Beyonce_featuring ==
    <<"B", "e", "y", "o", "n", "c", "e", " ", "f", "e", "a", "t", "u", "r", "i", "n", "g", " ",
      "J", "a", "y", "-", "Z">>
SN_Mariah_feat ==
    <<"M", "a", "r", "i", "a", "h", " ", "C", "a", "r", "e", "y", " ", "f", "e", "a", "t", ".",
      " ", "J", "a", "y", "-", "Z">>
SN_JayZ_and_Kanye ==
    <<"J", "a", "y", "-", "Z", " ", "&", " ", "K", "a", "n", "y", "e", " ", "W", "e", "s", "t">>
SN_Santana_with ==
    <<"S", "a", "n", "t", "a", "n", "a", " ", "w", "i", "t", "h", " ", "R", "o", "b", " ", "T",
      "h", "o", "m", "a", "s">>
SN_JayZ_comma_Kanye ==
    <<"J", "a", "y", "-", "Z", ",", " ", "K", "a", "n", "y", "e", " ", "W", "e", "s", "t">>
SN_Simon_Garfunkel ==
    <<"S", "i", "m", "o", "n", "&", "G", "a", "r", "f", "u", "n", "k", "e", "l">>
SN_Chloe_x_Halle == <<"C", "h", "l", "o", "e", " ", "x", " ", "H", "a", "l", "l", "e">>
SN_Brandy_f_Mase == <<"B", "r", "a", "n", "d", "y", " ", "f", "/", " ", "M", "a", "s", "e">>
SN_Eve_plus_Gwen == <<"E", "v", "e", " ", "+", " ", "G", "w", "e", "n">>
SN_Brooks_Dunn_feat ==
    <<"B", "r", "o", "o", "k", "s", " ", "&", " ", "D", "u", "n", "n", " ", "f", "e", "a", "t",
      ".", " ", "R", "e", "b", "a">>
SN_padded_Drake ==
    <<" ", "D", "r", "a", "k", "e", " ", "f", "t", " ", "F", "u", "t", "u", "r", "e", " ">>

SubjectNames == {SN_Outkast, SN_Drake_ft, SN_Beyonce_featuring, SN_Mariah_feat,
                 SN_JayZ_and_Kanye, SN_Santana_with, SN_JayZ_comma_Kanye, SN_Simon_Garfunkel,
                 SN_Chloe_x_Halle, SN_Brandy_f_Mase, SN_Eve_plus_Gwen, SN_Brooks_Dunn_feat,
                 SN_padded_Drake}

\* the sources classify_artist asks with primary_artist; which of them are asked
\* depends on the availability flags and on what Spotify returned
PrimaryArtistSources == {"spotify", "chartmetric", "lastfm"}

\* a subject name reaches classify_artist and, as original_artist, _is_good_match
InitNames ==
    /\ EngineInit
    /\ spotify_available
    /\ VoteIdle
    /\ SubIdle
    /\ ProdIdle
    /\ MgrIdle
    /\ SaveIdle
    /\ CacheIdle
    /\ q_title = <<>>
    /\ q_artist = <<>>
    /\ q_queries = <<>>
    /\ q_pc = "idle"
    /\ MatchIdle
    /\ s_song_name = <<>>
    /\ s_artist_name = <<>>
    /\ s_query = 0
    /\ s_attempt = 0
    /\ s_hits = <<>>
    /\ s_j = 0
    /\ s_seen = {}
    /\ s_result = NoMatchFound
    /\ s_pc = "idle"
    /\ n_artist_name \in SubjectNames
    /\ n_primary_artist = <<>>
    /\ n_lookups = {}
    /\ n_main_artist = <<>>
    /\ n_pc = {}

nameFrame == <<besideQuery, q_title, q_artist, q_queries, q_pc, matchVars, s_song_name,
               s_artist_name, s_query, s_attempt, s_hits, s_j, s_seen, s_result, s_pc,
               n_artist_name>>

\* classify_artist: the name it extracts and hands to the source clients; the Genius
\* lookup of the database gets artist_name itself
PrimaryArtistLookups ==
    /\ "engine" \notin n_pc
    /\ n_primary_artist' = _extract_primary_artist(n_artist_name)
    /\ \E asked \in SUBSET PrimaryArtistSources :
         n_lookups' = {[source |-> s, name |-> _extract_primary_artist(n_artist_name)] :
                         s \in asked}
                      \cup {[source |-> "genius", name |-> n_artist_name]}
    /\ n_pc' = n_pc \cup {"engine"}
    /\ UNCHANGED <<nameFrame, n_main_artist>>

\* _is_good_match: "Extract main artist from original"
MainArtistOfOriginal ==
    /\ "matcher" \notin n_pc
    /\ n_main_artist' = ToLower(MainArtist(n_artist_name))
    /\ n_pc' = n_pc \cup {"matcher"}
    /\ UNCHANGED <<nameFrame, n_primary_artist, n_lookups>>

NextNames ==
    \/ PrimaryArtistLookups
    \/ MainArtistOfOriginal

SpecNames == InitNames /\ [][NextNames]_vars

TypeOK ==
    /\ pc \in {"loop", "skipped", "classify", "spotify", "chartmetric", "lastfm", "genius",
               "returned", "exit"}
    /\ runs \in 1..MaxRuns

\* ------------------------------------------------------------ properties
HasHighRow(s) == \E r \in song_genres : r.song_id = s /\ FracGT(r.confidence_score, 8, 10)

\* every song of the subject carries a genre row with confidence > 0.8
AllSongsHigh(artist_name, yr) ==
    /\ SongsOf(artist_name, yr) # {}
    /\ \A s \in SongsOf(artist_name, yr) : HasHighRow(s)

InCall == pc \in {"spotify", "chartmetric", "lastfm", "genius", "returned"}

Called(source) == \E i \in DOMAIN calls : calls[i] = source

\* C1: when every song of the subject carries a persisted genre with
\* confidence > 0.8, classify_artist returns the profile reconstructed from
\* the persisted rows and calls no source during that call.
C1_ShortCircuitWhenAllHigh ==
    (InCall /\ AllSongsHigh(artist, NoYear)) => (path = "existing" /\ calls = <<>>)

\* C2: the short-circuit is taken only when all songs of the subject are
\* classified: a skip by the batch driver, and a reconstructed profile returned
\* by classify_artist, both imply that every song has a row above 0.8.
C2_ShortCircuitOnlyWhenAllHigh ==
    /\ pc = "skipped" => AllSongsHigh(artist, year)
    /\ (pc = "returned" /\ path = "existing") => AllSongsHigh(artist, NoYear)

SameAnswerAsFirst ==
    /\ pc = "returned"
    /\ first_voted # NoProfile
    /\ first_voted.artist_name = artist
    /\ path \in {"existing", "cached"} \/ External(result.classifications) = first_voted.external

\* C3: classifying a subject again, the external sources answering as they
\* did the first time (or not being asked at all), yields the same
\* primary_genre, confidence_score and secondary_tags as the first time.
C3_ClassifyTwiceSameProfile ==
    SameAnswerAsFirst =>
        /\ result.primary_genre = first_voted.primary_genre
        /\ result.confidence_score = first_voted.confidence_score
        /\ result.secondary_tags = first_voted.secondary_tags

FromSource(source) == {i \in DOMAIN classifications : classifications[i].source = source}

\* C4: a source that raised or returned no data contributes no
\* classification; every call that polls the sources returns a profile, and
\* when no source contributed anything that profile is "other" with
\* confidence 0.
C4_SourceFailureIsolation ==
    /\ (InCall /\ calls # <<>> /\ last_answer \in {"raise", "none"})
          => FromSource(calls[Len(calls)]) = {}
    /\ (pc = "returned" /\ path = "voted") =>
          /\ result # NoProfile
          /\ result.classifications = classifications
          /\ classifications = <<>> =>
                (result.primary_genre = G_other /\ result.confidence_score = Zero)

\* reached: every source asked failed, and the profile is "other" with confidence 0
C4_Witness ==
    /\ pc = "returned"
    /\ path = "voted"
    /\ last_answer = "raise"
    /\ Len(calls) = 4
    /\ classifications = <<>>
    /\ result.primary_genre = G_other

\* C5: Spotify is called before Chartmetric, and Chartmetric is called only
\* in calls where Spotify gave no genre tag (absent, empty, raised, or
\* Spotify not configured).
C5_ChartmetricOnlyAfterSpotifyFailed ==
    /\ \A i, j \in DOMAIN calls :
          (calls[i] = "spotify" /\ calls[j] = "chartmetric") => i < j
    /\ Called("chartmetric") => (~spotify_has_good_data /\ FromSource("spotify") = {})
    /\ (pc = "spotify" /\ InCall) => ~Called("chartmetric")
    /\ (InCall /\ FromSource("spotify") # {}) => ~Called("chartmetric")

\* reached: Spotify gave a tag and the call finished without asking Chartmetric
C5_Witness ==
    /\ pc = "returned"
    /\ path = "voted"
    /\ FromSource("spotify") # {}
    /\ ~Called("chartmetric")
    /\ Called("lastfm")

\* reached as well: Spotify was asked first and failed, then Chartmetric was asked
C5_WitnessFallback ==
    /\ pc = "returned"
    /\ calls = <<"spotify", "chartmetric", "lastfm", "genius">>

\* C6: every classify_artist call that is not answered from the persisted
\* rows or from the in-memory cache attempts Last.fm and the database lookup,
\* whatever Spotify and Chartmetric did.
C6_LastfmAndDatabaseAlwaysAttempted ==
    (pc = "returned" /\ path = "voted") => (Called("lastfm") /\ Called("genius"))

\* reached: Spotify succeeded, and Last.fm and the database were still asked
C6_Witness ==
    /\ pc = "returned"
    /\ path = "voted"
    /\ spotify_has_good_data
    /\ Called("lastfm")
    /\ Called("genius")

\* the reliabilities as stated, in hundredths
StatedReliability(source) ==
    CASE source = "chartmetric" -> 35
      [] source = "spotify" -> 30
      [] source = "lastfm" -> 25
      [] source = "genius" -> 10

\* sum of reliability x confidence over the tags of cls whose text maps to g
RECURSIVE StatedTotal(_, _)
StatedTotal(cls, g) ==
    IF cls = <<>> THEN 0
    ELSE (IF PrimaryOf[Head(cls).name] = g
          THEN StatedReliability(Head(cls).source) * Head(cls).confidence ELSE 0)
         + StatedTotal(Tail(cls), g)

RECURSIVE StatedSum(_)
StatedSum(cls) ==
    IF cls = <<>> THEN 0
    ELSE StatedReliability(Head(cls).source) * Head(cls).confidence + StatedSum(Tail(cls))

\* C7: for a non-empty list of classifications the reasoning engine gives
\* each genre the sum of reliability x confidence of the tags mapping to it
\* (chartmetric 0.35, spotify 0.30, lastfm 0.25, genius 0.10); primary_genre
\* has a maximal total, and confidence_score is that total over the sum of
\* all totals.
C7_WeightedVoting ==
    (vote_out # NoProfile /\ vote_in # <<>>) =>
        /\ \A g \in primary_genres :
              StatedTotal(vote_in, vote_out.primary_genre) >= StatedTotal(vote_in, g)
        /\ StatedTotal(vote_in, vote_out.primary_genre) > 0
        /\ vote_out.confidence_score =
              Frac(StatedTotal(vote_in, vote_out.primary_genre), StatedSum(vote_in))

\* reached: Genius says soul, Spotify says dance pop, and pop wins with 210 of 270
C7_Witness ==
    /\ vote_in = <<[name |-> T_soul, confidence |-> 6, source |-> "genius"],
                   [name |-> T_dance_pop, confidence |-> 7, source |-> "spotify"]>>
    /\ vote_out # NoProfile
    /\ vote_out.primary_genre = G_pop
    /\ vote_out.confidence_score = Frac(7, 9)
    /\ T_soul \in vote_out.secondary_tags

\* reached as well: a Chartmetric tag outweighs a Spotify tag for another genre
C7_WitnessChartmetric ==
    /\ vote_in = <<[name |-> T_dance_pop, confidence |-> 7, source |-> "spotify"],
                   [name |-> T_soul, confidence |-> 8, source |-> "chartmetric"]>>
    /\ vote_out # NoProfile
    /\ vote_out.primary_genre = G_rnb

FracInUnit(f) == f.n >= 0 /\ f.d > 0 /\ f.n <= f.d

\* C8: every profile classify_artist returns has confidence_score in [0,1],
\* and the score is 0 exactly when the profile has no source classification.
C8_ConfidenceZeroIffNoSources ==
    pc = "returned" =>
        /\ FracInUnit(result.confidence_score)
        /\ (result.confidence_score = Zero) <=> (result.classifications = <<>>)

\* C9: every profile classify_artist returns, and every profile the
\* idempotence check reconstructs, has primary_genre in the closed set of
\* eleven genres; _map_to_primary_genre returns a member of it for every input.
C9_PrimaryGenreClosedSet ==
    /\ \A t \in MapInputs : PrimaryOf[t] \in primary_genres
    /\ pc \in {"returned", "skipped"} => result.primary_genre \in primary_genres
    /\ \A k \in DOMAIN classification_cache :
          classification_cache[k].primary_genre \in primary_genres
    /\ \A r \in song_genres : r.genre_name \in primary_genres

\* reached: a profile reconstructed from persisted rows is returned
C9_Witness ==
    /\ pc = "returned"
    /\ path = "existing"
    /\ result.primary_genre \in primary_genres

\* reached as well: an unmapped tag was voted and the profile says "other"
C9_WitnessOther ==
    /\ pc = "returned"
    /\ path = "voted"
    /\ \E i \in DOMAIN classifications : classifications[i].name = T_xq
    /\ result.primary_genre = G_other

C10_WitnessFallback ==
    /\ sub_pc = "done"
    /\ sub_genre = G_jazz
    /\ G_jazz \in models
    /\ sub_method = "auto"
    /\ ml_outcome = "raised"
    /\ rules_entered
    /\ sub_result.method = "rules"

\* some jazz profile matches the features with a score of at least 0.6
JazzRuleClears(audio_features) ==
    \E i \in DOMAIN RULE_BASED_SUBGENRES(G_jazz) :
        FracGE(_calculate_profile_match(audio_features, RULE_BASED_SUBGENRES(G_jazz)[i].profile), 6, 10)

C11_WitnessNoMatch ==
    /\ sub_pc = "done"
    /\ sub_genre = G_jazz
    /\ G_jazz \notin models
    /\ sub_method = "auto"
    /\ rules_entered
    /\ sub_result.method = "none"

\* C12 (as claimed): for a fixed producer list and year, analyze_producer_contribution returns
\* the same suggested_subgenres on every call and in every run, order included; at most three
\* are kept, and for ['Max Martin'], 2002, where every subgenre is suggested once, they come
\* in the order of the signature table.
ProdCalled == prod_runs > 1 \/ prod_calls > 0

C12_SameSuggestionsEveryRun ==
    /\ ProdCalled => prod_out = prod_first
    /\ (ProdCalled /\ prod_out # NoAnalysis) => Len(prod_out.suggested_subgenres) <= TopSubgenres
    /\ (ProdCalled /\ song_producers = <<P_Max_Martin>> /\ song_year = 2002)
           => prod_out.suggested_subgenres = <<"dance-pop", "teen-pop", "electropop">>

\* subjects counted in one of the three counters, and subjects started
Handled == stats.successful + stats.failed + stats.skipped

Started == Handled + (IF m_pc \in {"in_flight", "save"} THEN 1 ELSE 0)

\* C13 (as claimed): a subject whose classification the storage refused to write is counted
\* in 'failed' and not in 'successful'.
C13_RejectedWriteCountsAsFailed ==
    (m_pc = "checkpoint" /\ m_last = "rejected")
        => (stats.failed = m_before.failed + 1 /\ stats.successful = m_before.successful)

\* C14 (as claimed): whenever the number of subjects handled reaches a multiple of 10, whether
\* they were classified, skipped or failed, the checkpoint file holds the current counts
\* (disk failures apart).
C14_CheckpointAtEveryTenth ==
    (m_pc = "artist_loop" /\ batch_i > 0 /\ batch_i % checkpoint_every = 0
     /\ last_write # "failed")
        => checkpoint_file = [processed_artists |-> batch_i, total_artists |-> BatchLen,
                              successful |-> stats.successful, failed |-> stats.failed,
                              skipped |-> stats.skipped]

\* C15 (as claimed): after a run that completed, the checkpoint file is gone; after a run that
\* a signal stopped before all subjects were handled, the checkpoint written last is there.
C15_CheckpointSurvivesEarlyStop ==
    /\ (m_pc = "exit" /\ running) => checkpoint_file = NoCheckpoint
    /\ (m_pc = "exit" /\ ~running /\ Handled < total_artists /\ last_write = "written")
           => checkpoint_file # NoCheckpoint

\* C16: once a signal has been delivered no further subject is started, in this batch or a
\* later one, and the subject in hand is still classified and saved: its steps stay enabled
\* and a profile in hand is saved and counted.
C16_GracefulShutdown ==
    /\ [][~running => Started' = Started]_vars
    /\ [][(m_pc = "save" /\ m_pc' # "save")
              => (m_pc' = "checkpoint" /\ m_last' \in {"saved", "rejected"})]_vars
    /\ [](m_pc \in {"in_flight", "save", "checkpoint"}
              => ENABLED (ClassifySubject \/ SaveSubject \/ Checkpoint))

\* a signal arrived while a subject was in hand; the subject was saved and the run ended
\* with subjects left
C16_Witness ==
    /\ signal_pc = "in_flight"
    /\ m_pc = "exit"
    /\ m_last = "saved"
    /\ Handled < total_artists

\* C17 (as claimed): once a checkpoint could not be written, the run starts no further subject.
C17_CheckpointWriteFailureStopsRun ==
    last_write = "failed" => m_pc \notin {"in_flight", "save"}

\* C18: saving the same classification of the same subject twice leaves the song-genre and
\* song-subgenre rows as they were after the first save, and after any sequence of saves no
\* song carries the same genre twice or the same subgenre (name under its parent genre) twice.
C18_SavesAreIdempotent ==
    /\ save_repeat => (song_genres = rows_before.genres /\ song_subgenres = rows_before.subgenres)
    /\ \A r1, r2 \in song_genres :
           (r1.song_id = r2.song_id /\ r1.genre_name = r2.genre_name) => r1 = r2
    /\ \A r1, r2 \in song_subgenres :
           (r1.song_id = r2.song_id /\ r1.subgenre_name = r2.subgenre_name
            /\ r1.parent_genre = r2.parent_genre) => r1 = r2

\* a profile with subgenres was stored and saved again
C18_Witness ==
    /\ save_repeat
    /\ last_save.outcome = "stored"
    /\ song_subgenres # {}
    /\ \E r \in song_subgenres : r.rank = 2

\* one song carries genre rows saved for two subjects with different confidences
C18_WitnessSharedSong ==
    \E r1, r2 \in song_genres : r1.song_id = r2.song_id /\ r1 # r2

\* C19 (as claimed): no source is called for a query whose response is in the response cache;
\* during classify_artist the query is the subject's primary artist.
C19_NoCallWhenCached ==
    \A s \in {S_spotify, S_lastfm} :
        (InCall /\ Called(IF s = S_spotify THEN "spotify" ELSE "lastfm"))
            => ApiKeys[s, artist] \notin DOMAIN api_cache


\* ------------------------------------------------------- search queries
QP_soundtrack ==
    <<"(", "S", "p", "i", "d", "e", "r", "-", "M", "a", "n", ":", " ", "I", "n", "t", "o", " ",
      "t", "h", "e", " ", "S", "p", "i", "d", "e", "r", "-", "V", "e", "r", "s", "e", ")">>
Q_Sunflower_Post_Malone ==
    <<"S", "u", "n", "f", "l", "o", "w", "e", "r", " ", "P", "o", "s", "t", " ", "M", "a", "l",
      "o", "n", "e">>

\* C20: generate_search_queries("Sunflower (Spider-Man: Into the Spider-Verse)",
\* "Post Malone & Swae Lee") returns "Sunflower Post Malone" as its first candidate, and no
\* candidate it returns contains "(Spider-Man: Into the Spider-Verse)"
C20_SunflowerFirstCandidate ==
    (q_pc = "done" /\ q_title = QT_Sunflower_SpiderVerse /\ q_artist = QA_Post_Malone_Swae_Lee)
        => /\ q_queries # <<>>
           /\ q_queries[1] = Q_Sunflower_Post_Malone
           /\ \A i \in DOMAIN q_queries : ~Contains(QP_soundtrack, q_queries[i])


\* ------------------------------------------------------- match decision
ThisMatch == SimilaritiesTable[<<genius_title, genius_artist, original_title, original_artist>>]

\* the rule as stated: title at least 70, and the artist contained or at least as similar as
\* 45 (title 100), 60 (title 95 to 99) or 70 (otherwise)
StatedRule(l) ==
    /\ l.best_title_similarity >= 70
    /\ \/ l.contained
       \/ l.artist_similarity >= (IF l.best_title_similarity = 100 THEN 45
                                  ELSE IF l.best_title_similarity >= 95 THEN 60 ELSE 70)

C21_WitnessLowTitle ==
    /\ match_pc = "done"
    /\ FUZZYWUZZY_AVAILABLE
    /\ ~match_result
    /\ match_locals.best_title_similarity < 70
    /\ match_locals.artist_similarity = 100

\* a near-exact title refused with an artist between 45 and 59
C21_WitnessNearExact ==
    /\ match_pc = "done"
    /\ FUZZYWUZZY_AVAILABLE
    /\ ~match_result
    /\ match_locals.best_title_similarity \in 95..99
    /\ match_locals.artist_similarity \in 45..59

OtherThree(l) ==
    Max2(l.title_similarity, Max2(l.title_similarity_no_feat, l.title_similarity_no_article))

\* the gate on the similarities _is_good_match computed
GateHolds(l) ==
    /\ l.artist_similarity < 85 => l.best_title_similarity = OtherThree(l)
    /\ l.best_title_similarity # OtherThree(l) =>
           /\ l.artist_similarity >= 85
           /\ l.best_title_similarity = l.title_similarity_no_parens
    /\ l.artist_similarity >= 85 =>
           l.best_title_similarity = Max2(OtherThree(l), l.title_similarity_no_parens)

HollaBackScenario ==
    /\ genius_title = MT_Holla_Back
    /\ genius_artist = MA_Wrong_Artist
    /\ original_title = MT_Youngn_Holla_Back
    /\ original_artist = MA_Right_Artist

C22_WitnessGateOpen ==
    /\ match_pc = "done"
    /\ FUZZYWUZZY_AVAILABLE
    /\ match_locals.title_similarity_no_parens = 100
    /\ OtherThree(match_locals) < 70
    /\ match_locals.artist_similarity >= 85
    /\ ~match_locals.contained
    /\ match_result

\* the Holla Back call, answered
C22_WitnessScenario ==
    /\ match_pc = "done"
    /\ FUZZYWUZZY_AVAILABLE
    /\ HollaBackScenario
    /\ ~match_result


\* ------------------------------------------------------- search
Accepted(h) ==
    GoodMatch(h.title, h.artist, s_song_name, s_artist_name, FUZZYWUZZY_AVAILABLE)

SimilarityOf(h) ==
    SimilaritiesTable[<<h.title, h.artist, s_song_name, s_artist_name>>].best_title_similarity

\* C23: the candidate search_song_enhanced returns is, among the hits of the lookup that pass
\* the match decision, one with the highest similarity
C23_HighestSimilarityKept ==
    (s_pc = "done" /\ s_result.success) =>
        \A h \in s_seen :
            Accepted(h) =>
                SimilarityOf(h) <= SimilarityOf([title |-> s_result.title,
                                                 artist |-> s_result.artist, id |-> s_result.id])


\* ------------------------------------------------------- secondary tags and indicators
\* the lower-cased raw tags of the classifications
RawTags(cls) == {LowerOf[cls[i].name] : i \in DOMAIN cls}

\* C24: after voting, secondary_tags holds (up to the cap of 10) every raw tag whose
\* lower-cased text differs from the name of the winning primary genre and no tag equal to
\* it, so the name of a losing primary genre given as a raw tag is kept
C24_SecondaryTagsDifferFromWinner ==
    (vote_out # NoProfile /\ vote_in # <<>>) =>
        /\ vote_out.primary_genre \notin vote_out.secondary_tags
        /\ vote_out.secondary_tags \subseteq RawTags(vote_in) \ {vote_out.primary_genre}
        /\ Cardinality(vote_out.secondary_tags) <= MaxSecondaryTags
        /\ Cardinality(RawTags(vote_in) \ {vote_out.primary_genre}) <= MaxSecondaryTags
               => vote_out.secondary_tags = RawTags(vote_in) \ {vote_out.primary_genre}

\* C25: multi_genre_crossover and primary_X_secondary_Y are emitted exactly when a
\* second-place genre has at least 60% of the winner's weight, the boundary included;
\* high_genre_diversity exactly when there are more than 5 secondary tags; primary genre and
\* confidence are those of the vote
C25_CrossoverIndicators ==
    (vote_out # NoProfile /\ vote_in # <<>>) =>
        LET winner == vote_out.primary_genre
            strong == {g \in VotedGenres(vote_in) \ {winner} :
                          10 * StatedTotal(vote_in, g) >= 6 * StatedTotal(vote_in, winner)}
        IN /\ vote_indicators.multi_genre_crossover <=> strong # {}
           /\ vote_indicators.multi_genre_crossover =>
                  /\ vote_indicators.primary = winner
                  /\ vote_indicators.secondary \in strong
           /\ vote_indicators.high_genre_diversity <=> Cardinality(vote_out.secondary_tags) > 5
           /\ winner = Winner(vote_in)
           /\ vote_out.confidence_score = VotedConfidence(vote_in)

\* C26: the same raw tempo is seen as the same normalized value (above 200 halved,
\* below 100 doubled, otherwise unchanged) by the trainer, by the model's feature
\* vector at inference and by the rule-based range scoring.
C26_SameNormalizedTempo ==
    LET seen == {train_tempo, features_tempo, scored_tempo} \ {NoTempo}
    IN seen \subseteq {adjust_tempo(sub_features["tempo"])}

\* the part of C26 that the trainer and the inference path share
C26_TrainingAndInferenceAgree ==
    {train_tempo, features_tempo} \ {NoTempo} \subseteq {adjust_tempo(sub_features["tempo"])}

\* C27: classify_with_rules scores each profile of the primary genre as credits /
\* features checked (1 for a feature inside [min, max], 0.5 for one within 20% outside
\* it, 0 otherwise) and picks the highest score; classify returns that subgenre with
\* method "rules" only if the score is at least 0.6, and otherwise subgenre null,
\* confidence 0.0 and method "none".
Checked(audio_features, profile) ==
    {j \in DOMAIN profile : profile[j].feature \in DOMAIN audio_features}

Inside(audio_features, profile) ==
    {j \in Checked(audio_features, profile) :
        /\ profile[j].min <= audio_features[profile[j].feature]
        /\ audio_features[profile[j].feature] <= profile[j].max}

Within20(audio_features, profile) ==
    {j \in Checked(audio_features, profile) \ Inside(audio_features, profile) :
        LET v == audio_features[profile[j].feature]
        IN \/ v > profile[j].max /\ v * 10 <= profile[j].max * 12
           \/ v < profile[j].min /\ v * 10 >= profile[j].min * 8}

StatedScore(audio_features, profile) ==
    IF Checked(audio_features, profile) = {} THEN Zero
    ELSE Frac(2 * Cardinality(Inside(audio_features, profile))
                + Cardinality(Within20(audio_features, profile)),
              2 * Cardinality(Checked(audio_features, profile)))

FracLE(f, g) == f.n * g.d <= g.n * f.d

StatedScores(primary_genre, audio_features) ==
    LET ps == IF primary_genre \in RuleGenres THEN RULE_BASED_SUBGENRES(primary_genre)
              ELSE <<>>
    IN {[subgenre |-> ps[i].subgenre, score |-> StatedScore(audio_features, ps[i].profile)] :
          i \in DOMAIN ps}

Highest(scores) == {s \in scores : \A t \in scores : FracLE(t.score, s.score)}

RulesAnswered == sub_pc = "done" /\ rules_entered

C27_RuleBasedAcceptance ==
    RulesAnswered =>
        LET top == Highest(StatedScores(sub_genre, sub_features))
        IN IF \E s \in top : FracGE(s.score, 6, 10)
           THEN /\ sub_result.method = "rules"
                /\ \E s \in top : /\ sub_result.subgenre = s.subgenre
                                   /\ sub_result.confidence = s.score
           ELSE /\ sub_result.subgenre = None
                /\ sub_result.confidence = Zero
                /\ sub_result.method = "none"

\* the same away from the one edge where the program's product is not the exact one
AtRoundedEdge ==
    \E i \in DOMAIN RULE_BASED_SUBGENRES(sub_genre) :
      LET profile == RULE_BASED_SUBGENRES(sub_genre)[i].profile
      IN \E j \in Checked(sub_features, profile) :
           /\ RoundsAbove(profile[j].min)
           /\ sub_features[profile[j].feature] * 10 = profile[j].min * 8

C27_AcceptanceAwayFromRoundedEdge ==
    (RulesAnswered /\ ~AtRoundedEdge) =>
        LET top == Highest(StatedScores(sub_genre, sub_features))
        IN IF \E s \in top : FracGE(s.score, 6, 10)
           THEN /\ sub_result.method = "rules"
                /\ \E s \in top : /\ sub_result.subgenre = s.subgenre
                                   /\ sub_result.confidence = s.score
           ELSE /\ sub_result.subgenre = None
                /\ sub_result.confidence = Zero
                /\ sub_result.method = "none"

\* C28: for every subject name, the primary artist the reasoning engine extracts equals,
\* up to letter case, the primary artist the matcher extracts from the same string, and
\* that name is the one passed to the Spotify, Chartmetric and Last.fm lookups.
BothExtracted == n_pc = {"engine", "matcher"}

C28_OnePrimaryArtistRule ==
    BothExtracted =>
        /\ Lower(n_primary_artist) = Lower(n_main_artist)
        /\ \A l \in n_lookups :
             l.source \in PrimaryArtistSources => Lower(l.name) = Lower(n_main_artist)

\* the half of C28 about the lookups alone
C28_LookupsGetPrimaryArtist ==
    "engine" \in n_pc =>
        \A l \in n_lookups : l.source \in PrimaryArtistSources => l.name = n_primary_artist

\* C29: at every point of a run of process_year_songs, over any number of batches and
\* any mix of classified, skipped and failed subjects, successful + failed + skipped is
\* at most total_processed, so the success rate (successful / total_processed) never
\* exceeds 100%; after a run that was not interrupted the sum is the number of subjects
\* processed.
C29_BatchCountersConsistent ==
    /\ Handled <= stats.total_processed
    /\ stats.successful <= stats.total_processed
    /\ (m_pc = "exit" /\ running) => Handled = total_artists

\* the same within the first batch of a run
InFirstBatch == batch_start = 0 /\ m_pc \in {"artist_loop", "in_flight", "save", "checkpoint"}

C29_ConsistentInFirstBatch ==
    /\ InFirstBatch => (Handled <= stats.total_processed
                        /\ stats.successful <= stats.total_processed)
    /\ (m_pc = "exit" /\ running) => Handled = total_artists

\* C30: once a subject with at least one song has been classified with confidence above
\* 0.8 and save_artist_classification has completed for it, whatever genre rows its songs
\* carried before, _get_existing_classification with the same year reports the subject
\* as classified with high confidence, so that a re-run of the batch skips it.
SaveCompletes ==
    /\ pc = "returned"
    /\ kind = "batch"
    /\ song_genres' = song_genres \cup SavedRows(artist, result, year)

SavedHigh ==
    /\ SaveCompletes
    /\ SongsOf(artist, year) # {}
    /\ result.primary_genre # NoName
    /\ FracGT(result.confidence_score, 8, 10)

SkippedOnRerun(rows, artist_name, yr) ==
    \A p \in ExistingIn(rows, artist_name, yr) :
        p # NoProfile /\ DecimalAboveFloat08(p.confidence_score)

C30_ResumptionConverges ==
    [][SavedHigh => SkippedOnRerun(song_genres', artist, year)]_vars

\* the same for a subject none of whose songs carried a genre row before the save
NoRowsBefore == \A r \in song_genres : r.song_id \notin SongsOf(artist, year)

C30_ConvergesFromNoRows ==
    [][(SavedHigh /\ NoRowsBefore) => SkippedOnRerun(song_genres', artist, year)]_vars

====
